---- MODULE Spec2Model ----
(***************************************************************************)
(* ADB container engine (src/adb.c): container parsing in stream, map and  *)
(* blob mode, the detached-signature driver and the arena writer; and the  *)
(* extract applet's walk over the DATA blocks of a package.                *)
(*                                                                         *)
(* One set of variables is shared by the specifications, one per entry     *)
(* point family; each specification's Init fixes the variables it does not *)
(* use:                                                                    *)
(*   SpecStream  adb_m_stream, block by block                              *)
(*   SpecParse   adb_m_blob / adb_m_map (__adb_m_parse)                    *)
(*   SpecSig     adb_trust_write_signatures / adb_trust_verify_signature   *)
(*   SpecW       adb_w_raw / adb_w_data / adb_w_blob / adb_w_int /         *)
(*               adb_w_root / adb_r_root                                   *)
(*   SpecObj     object builders and read views                            *)
(*   SpecArr     array builders: append, sort, find                        *)
(*   SpecCopy    adb_w_copy                                                *)
(*   SpecXfrm    adb_c_xfrm over the bytes of an input file                *)
(*   SpecEmit    adb_c_adb                                                 *)
(*   SpecRead    adb_r_blob                                                *)
(*   SpecSeg     adb_m_stream over the bytes of its input, with datacb     *)
(*   SpecBoth    adb_m_stream and adb_m_map on one container               *)
(*   SpecIdx     builder slots addressed by any index                      *)
(*   SpecFrame   adb_block_first / adb_block_next on a blob                *)
(*   SpecAlg     signature records of any version and digest               *)
(*   SpecGrow    adb_w_raw growing a dynamic arena                         *)
(*   SpecFree    adb_free after each way of filling a database             *)
(*   SpecExtract apk_extract_pkg (extract applet) over DATA blocks         *)
(***************************************************************************)
EXTENDS Integers, Sequences, FiniteSets, TLC

VARIABLES
    pc,        \* position of the running entry point
    db,        \* struct adb: hdr, adb (arena blob), mmap, buckets
    t,         \* struct apk_trust * (NullTrust when no trust store is given)
    vfy,       \* struct adb_verify_ctx
    trusted,   \* local 'trusted' of adb_m_stream / __adb_m_parse
    block_no,  \* local 'block_no' of adb_m_stream; block index in __adb_m_parse
    r,         \* return value of the entry point
    is,        \* input stream (stream mode) or byte range (map/blob mode)
    os,        \* output stream: the blocks written so far
    hist,      \* history of what the entry point did (for the properties)
    wo,        \* struct adb_obj: an object or array builder
    srcdb      \* a second struct adb: the source of adb_w_copy

vars == <<pc, db, t, vfy, trusted, block_no, r, is, os, hist, wo, srcdb>>

----------------------------------------------------------------------------
(* Bounds of the model *)

\* most blocks a container carries
MaxBlocks == 4
\* payload bytes are drawn from 0..MaxByte
MaxByte == 1

----------------------------------------------------------------------------
(* Program constants *)

ADB_FORMAT_MAGIC == 776094785
ADB_BLOCK_ALIGNMENT == 32
ADB_BLOCK_ADB == 0
ADB_BLOCK_SIG == 1
ADB_BLOCK_DATA == 2
ADB_BLOCK_RESERVED == 3
SIZEOF_ADB_BLOCK == 4
SIZEOF_ADB_HEADER == 8

EIO == 5
ENOSYS == 38
ENOMSG == 42
EBADMSG == 74
ENOTSUP == 95
ENOKEY == 126
EKEYREJECTED == 129

APK_DIGEST_SHA512 == "SHA512"

\* APK_BLOB_NULL: ptr = NULL, len = 0
APK_BLOB_NULL == [ptr |-> FALSE, len |-> 0, bytes |-> <<>>]
APK_BLOB_IS_NULL(b) == ~b.ptr
\* APK_BLOB_PTR_LEN over the bytes a non-null pointer designates
APK_BLOB_PTR_LEN(bytes) == [ptr |-> TRUE, len |-> Len(bytes), bytes |-> bytes]

ROUND_UP(x, a) == ((x + a - 1) \div a) * a

adb_block_size(raw) == ROUND_UP(raw, ADB_BLOCK_ALIGNMENT)
adb_block_length(raw) == raw - SIZEOF_ADB_BLOCK
adb_block_padding(raw) == adb_block_size(raw) - raw
\* adb_block_init(type, length).type_size, split into its two bit fields
adb_block_init(type, length) == [type |-> type, raw |-> SIZEOF_ADB_BLOCK + length]

----------------------------------------------------------------------------
(* Little-endian integers *)

RECURSIVE le_bytes(_, _)
le_bytes(v, n) == IF n = 0 THEN <<>> ELSE <<v % 256>> \o le_bytes(v \div 256, n - 1)

RECURSIVE le_value(_)
le_value(bs) == IF bs = <<>> THEN 0 ELSE bs[1] + 256 * le_value(Tail(bs))

\* struct adb_header as it lies in memory: magic then schema, little-endian
hdr_bytes(hdr) == le_bytes(hdr.magic, 4) \o le_bytes(hdr.schema, 4)
hdr_of_bytes(bs) == [magic |-> le_value(SubSeq(bs, 1, 4)), schema |-> le_value(SubSeq(bs, 5, 8))]

----------------------------------------------------------------------------
(* Trust collaborator: keys, digests, sign and verify primitives.          *)
(* A key is [id, kp]: id is the 16-byte key id, kp names the key pair; the *)
(* public and the private half of one pair carry the same kp.              *)

\* apk_digest_calc: a collision-free digest of the bytes
apk_digest_calc(alg, bytes) == [alg |-> alg, of |-> bytes]

\* apk_sign over the bytes fed to the digest context since apk_sign_start
apk_sign(key, msg) == [kp |-> key.kp, msg |-> msg]

\* apk_verify: 0 when sig was made by the private half of key over msg
apk_verify(key, msg, sig) == IF sig = [kp |-> key.kp, msg |-> msg] THEN 0 ELSE -EKEYREJECTED

NullTrust == [null |-> TRUE, trusted_key_list |-> <<>>, private_key_list |-> <<>>]
Trust(pub, priv) == [null |-> FALSE, trusted_key_list |-> pub, private_key_list |-> priv]

EmptyVfy == [calc |-> {}, sha512 |-> apk_digest_calc("NONE", <<>>)]

----------------------------------------------------------------------------
(* Signature driver *)

\* adb_digest_adb: the digest of the arena, cached in the verify context
adb_digest_adb(v, hash_alg, data) ==
    IF hash_alg # APK_DIGEST_SHA512 THEN [r |-> -ENOTSUP, vfy |-> v, md |-> v.sha512]
    ELSE IF hash_alg \notin v.calc /\ APK_BLOB_IS_NULL(data)
    THEN [r |-> -ENOMSG, vfy |-> v, md |-> v.sha512]
    ELSE LET v2 == IF hash_alg \in v.calc THEN v
                   ELSE [calc |-> v.calc \cup {hash_alg},
                         sha512 |-> apk_digest_calc(hash_alg, SubSeq(data.bytes, 1, data.len))]
         IN [r |-> 0, vfy |-> v2, md |-> v2.sha512]

\* struct adb_sign_v0 without its sig[] member: what sizeof *sig0 covers
sign_v0_prefix(sig) == [sign_ver |-> sig.sign_ver, hash_alg |-> sig.hash_alg, id |-> sig.id]

\* a digest of the record and the arena digest that leaves the header out
adb_digest_v0_signature_no_hdr(hdr, sig0, md) ==
    [hdr |-> <<>>, sig0 |-> sign_v0_prefix(sig0), md |-> md]

\* adb_digest_v0_signature: the bytes fed to the sign/verify digest context
adb_digest_v0_signature(hdr, sig0, md) ==
    [hdr |-> hdr_bytes(hdr), sig0 |-> sign_v0_prefix(sig0), md |-> md]

\* body of the private-key loop of adb_trust_write_signatures: one v0 record
adb_sign_v0(tkey, hdr, md) ==
    LET sig0 == [short |-> FALSE, sign_ver |-> 0, hash_alg |-> APK_DIGEST_SHA512,
                 id |-> tkey.id, sig |-> <<>>]
    IN [sig0 EXCEPT !.sig = apk_sign(tkey, adb_digest_v0_signature(hdr, sig0, md))]

\* adb_c_block: block header, payload and zero padding appended to the stream
adb_c_block(o, type, val, len) ==
    LET blk == adb_block_init(type, len)
    IN [o EXCEPT !.out = Append(@, [type |-> blk.type, raw |-> blk.raw, body |-> val,
                                    pad |-> adb_block_padding(blk.raw)])]

\* length of a v0 signature record: sizeof(sig.v0) + siglen
SIZEOF_ADB_SIGN_V0 == 18
SigLen == 64

RECURSIVE write_signatures_loop(_, _, _, _)
write_signatures_loop(keys, hdr, md, o) ==
    IF keys = <<>> THEN o
    ELSE write_signatures_loop(Tail(keys), hdr, md,
            adb_c_block(o, ADB_BLOCK_SIG, adb_sign_v0(Head(keys), hdr, md),
                        SIZEOF_ADB_SIGN_V0 + SigLen))

\* adb_trust_write_signatures(trust, db, vfy, os)
adb_trust_write_signatures(trust, d, v, o) ==
    LET dg == adb_digest_adb(v, APK_DIGEST_SHA512, d.adb)
    IN IF dg.r # 0 THEN [r |-> dg.r, vfy |-> dg.vfy, os |-> o]
       ELSE [r |-> 0, vfy |-> dg.vfy,
             os |-> write_signatures_loop(trust.private_key_list, d.hdr, dg.md, o)]

\* a key loop that gives up at the first key whose id differs from the record's
RECURSIVE verify_signature_loop_break(_, _, _, _)
verify_signature_loop_break(keys, d, v, sigb) ==
    IF keys = <<>> THEN [r |-> -EKEYREJECTED, vfy |-> v]
    ELSE LET tkey == Head(keys)
             dg == adb_digest_adb(v, sigb.hash_alg, d.adb)
         IN IF sigb.id # tkey.id THEN [r |-> -EKEYREJECTED, vfy |-> v]
            ELSE IF dg.r # 0 THEN verify_signature_loop_break(Tail(keys), d, dg.vfy, sigb)
            ELSE IF apk_verify(tkey, adb_digest_v0_signature(d.hdr, sigb, dg.md), sigb.sig) # 0
            THEN verify_signature_loop_break(Tail(keys), d, dg.vfy, sigb)
            ELSE [r |-> 0, vfy |-> dg.vfy]

\* the loop over trust->trusted_key_list of adb_trust_verify_signature
RECURSIVE verify_signature_loop(_, _, _, _)
verify_signature_loop(keys, d, v, sigb) ==
    IF keys = <<>> THEN [r |-> -EKEYREJECTED, vfy |-> v]
    ELSE LET tkey == Head(keys)
             dg == adb_digest_adb(v, sigb.hash_alg, d.adb)
         IN IF sigb.id # tkey.id THEN verify_signature_loop(Tail(keys), d, v, sigb)
            ELSE IF dg.r # 0 THEN verify_signature_loop(Tail(keys), d, dg.vfy, sigb)
            ELSE IF apk_verify(tkey, adb_digest_v0_signature(d.hdr, sigb, dg.md), sigb.sig) # 0
            THEN verify_signature_loop(Tail(keys), d, dg.vfy, sigb)
            ELSE [r |-> 0, vfy |-> dg.vfy]

\* adb_trust_verify_signature(trust, db, vfy, sigb)
adb_trust_verify_signature(trust, d, v, sigb) ==
    IF APK_BLOB_IS_NULL(d.adb) THEN [r |-> -ENOMSG, vfy |-> v]
    ELSE IF sigb.short THEN [r |-> -EBADMSG, vfy |-> v]
    ELSE IF sigb.sign_ver # 0 THEN [r |-> -ENOSYS, vfy |-> v]
    ELSE verify_signature_loop(trust.trusted_key_list, d, v, sigb)

----------------------------------------------------------------------------
(* Inputs the specifications draw from *)

Hdrs == {[magic |-> ADB_FORMAT_MAGIC, schema |-> s] : s \in 1..2}
            \cup {[magic |-> 0, schema |-> 1]}

\* ADB block payloads (arenas) of 0 and 1 bytes
Payloads == {<<>>} \cup {<<b>> : b \in 0..MaxByte}

KeyA == [id |-> 1, kp |-> 1]
KeyB == [id |-> 2, kp |-> 2]
\* a foreign key pair that carries KeyA's key id
KeyC == [id |-> 1, kp |-> 3]
\* a key pair nobody trusts, with an id of its own
KeyD == [id |-> 4, kp |-> 4]

\* the trust store handed to the readers: KeyB and KeyA are trusted
ReaderTrust == Trust(<<KeyB, KeyA>>, <<>>)

\* the headers a signer may have signed: the container headers and the
\* all-zero header of a database opened by adb_m_blob
SigHdrs == {h \in Hdrs : h.magic = ADB_FORMAT_MAGIC} \cup {[magic |-> 0, schema |-> 0]}

\* a v0 record as adb_trust_write_signatures makes it for (key, hdr, arena)
SigOver(key, hdr, bytes) == adb_sign_v0(key, hdr, apk_digest_calc(APK_DIGEST_SHA512, bytes))

\* the SIG block payloads a container may carry
SigBlobs ==
    {SigOver(k, h, p) : k \in {KeyA, KeyC, KeyD}, h \in SigHdrs, p \in Payloads}
      \cup {[SigOver(KeyA, h, <<>>) EXCEPT !.sign_ver = 1] : h \in SigHdrs}
      \cup {[SigOver(KeyA, h, <<>>) EXCEPT !.short = TRUE] : h \in SigHdrs}

BlockTypes == {ADB_BLOCK_ADB, ADB_BLOCK_SIG, ADB_BLOCK_DATA, ADB_BLOCK_RESERVED}

\* the block type sequences of up to MaxBlocks blocks
BlockSeqs == UNION {[1..n -> BlockTypes] : n \in 0..MaxBlocks}

\* struct adb after memset/zero initialisation
ZeroDb == [hdr |-> [magic |-> 0, schema |-> 0], adb |-> APK_BLOB_NULL,
           data |-> APK_BLOB_NULL, mmap |-> [ptr |-> FALSE, len |-> 0, mapped |-> FALSE],
           num_buckets |-> 0, bucket |-> <<>>]

\* An input stream: the bytes of the container header it carries (hdrlen),
\* the types of the blocks that follow, and where the stream is cut short:
\* inside the header of its last block ("hdr"), inside that block's padded
\* payload ("body"), or not at all.  ioerr records that a read of the stream
\* or the data callback failed; closed counts apk_istream_close calls;
\* expected_schema is the argument of that name the caller passes along.
StreamInputs ==
    {[hdrlen |-> SIZEOF_ADB_HEADER, blocks |-> b, cut |-> c, ioerr |-> FALSE, closed |-> 0,
      expected_schema |-> s] :
        b \in BlockSeqs \ {<<>>}, c \in {"none", "hdr", "body"}, s \in 0..1}
    \cup {[hdrlen |-> n, blocks |-> <<>>, cut |-> "none", ioerr |-> FALSE, closed |-> 0,
           expected_schema |-> s] :
        n \in {0, SIZEOF_ADB_BLOCK, SIZEOF_ADB_HEADER}, s \in 0..1}

NoStream == [hdrlen |-> 0, blocks |-> <<>>, cut |-> "none", ioerr |-> FALSE, closed |-> 0,
             expected_schema |-> 0]
NoOutput == [out |-> <<>>, rc |-> 0, hdr |-> <<>>]

\* no builder or view in use
NoSchema == [kind |-> "none", num_fields |-> 0, fields |-> <<>>, get_default_int |-> FALSE,
             defaults |-> <<>>, fromstring |-> FALSE]
NoObj == [schema |-> NoSchema, num |-> 0, obj |-> <<>>]

----------------------------------------------------------------------------
(* adb_m_stream *)

\* one entry of hist per block header read: the block type, whether the loop
\* went on to the next block, whether adb_trust_verify_signature returned 0
\* for it, and whether datacb was invoked for it
Event(type, ok, verified, cb) == [type |-> type, ok |-> ok, verified |-> verified, cb |-> cb]

InitStream ==
    /\ pc = "hdr"
    /\ db = ZeroDb
    /\ t \in {NullTrust, ReaderTrust}
    /\ vfy = EmptyVfy
    /\ trusted = t.null              \* int trusted = t ? 0 : 1
    /\ block_no = 0
    /\ r = 0
    /\ is \in StreamInputs
    /\ os = NoOutput
    /\ wo = NoObj
    /\ srcdb = ZeroDb
    /\ hist = <<>>

\* a return that leaves the stream open
stream_done_noclose(rv, io) ==
    /\ pc' = "done"
    /\ r' = rv
    /\ is' = [is EXCEPT !.ioerr = @ \/ io]

\* labels err: and done: apk_istream_close(is); return r
stream_done(rv, io) ==
    /\ pc' = "done"
    /\ r' = rv
    /\ is' = [is EXCEPT !.closed = @ + 1, !.ioerr = @ \/ io]

\* label err: a non-negative r becomes -EBADMSG
stream_err(rv, io) == stream_done(IF rv >= 0 THEN -EBADMSG ELSE rv, io)

\* label bad_msg:
stream_bad_msg == stream_err(-EBADMSG, FALSE)

\* the outcomes of reading the padded payload of the block just entered: all
\* of it, less than all when the stream is cut inside it, or a read error
BodyReads == IF block_no + 1 = Len(is.blocks) /\ is.cut = "body"
             THEN {"short", "error"} ELSE {"full", "error"}

\* the container header is read and its magic checked (expected_schema is
\* not looked at)
m_stream_hdr ==
    /\ pc = "hdr"
    /\ \E n \in {-EIO, is.hdrlen}, h \in Hdrs :
         IF n # SIZEOF_ADB_HEADER THEN stream_err(n, n < 0) /\ UNCHANGED db
         ELSE /\ db' = [db EXCEPT !.hdr = h]
              /\ IF h.magic # ADB_FORMAT_MAGIC THEN stream_bad_msg
                 ELSE pc' = "blk" /\ UNCHANGED <<r, is>>
    /\ UNCHANGED <<t, vfy, trusted, block_no, os, hist, wo, srcdb>>

\* the block header read returns 0: end of the stream
m_stream_end ==
    /\ pc = "blk"
    /\ block_no = Len(is.blocks)
    /\ stream_done(IF ~trusted THEN -ENOKEY
                   ELSE IF ~db.adb.ptr THEN -ENOMSG
                   ELSE 0, FALSE)
    /\ UNCHANGED <<db, t, vfy, trusted, block_no, os, hist, wo, srcdb>>

\* the block header read fails, or comes back short where the stream is cut
m_stream_trunc ==
    /\ pc = "blk"
    /\ block_no < Len(is.blocks)
    /\ \/ stream_err(-EIO, TRUE)
       \/ /\ block_no + 1 = Len(is.blocks) /\ is.cut = "hdr"
          /\ stream_err(2, FALSE)
    /\ UNCHANGED <<db, t, vfy, trusted, block_no, os, hist, wo, srcdb>>

\* an order test that looks at the type of the first block only
stream_order_bad_first_only(type) == block_no = 0 /\ type # ADB_BLOCK_ADB

\* a whole block header was read: (block_no++ == 0) != (type == ADB)
stream_order_bad(type) == (block_no = 0) # (type = ADB_BLOCK_ADB)

\* the next block header is read whole and has the given type
stream_reads(type) ==
    /\ pc = "blk"
    /\ block_no < Len(is.blocks)
    /\ ~(block_no + 1 = Len(is.blocks) /\ is.cut = "hdr")
    /\ is.blocks[block_no + 1] = type

m_stream_order ==
    /\ \E type \in BlockTypes :
         /\ stream_reads(type)
         /\ stream_order_bad(type)
         /\ hist' = Append(hist, Event(type, FALSE, FALSE, FALSE))
    /\ block_no' = block_no + 1
    /\ stream_bad_msg
    /\ UNCHANGED <<db, t, vfy, trusted, os, wo, srcdb>>

\* case ADB_BLOCK_ADB: the arena is allocated and read
m_stream_adb ==
    /\ stream_reads(ADB_BLOCK_ADB)
    /\ ~stream_order_bad(ADB_BLOCK_ADB)
    /\ block_no' = block_no + 1
    /\ IF ~APK_BLOB_IS_NULL(db.adb)
       THEN /\ stream_bad_msg
            /\ hist' = Append(hist, Event(ADB_BLOCK_ADB, FALSE, FALSE, FALSE))
            /\ UNCHANGED db
       ELSE \E p \in Payloads, malloc_ok \in BOOLEAN, rd \in BodyReads :
              LET raw == SIZEOF_ADB_BLOCK + Len(p)
                  sz == adb_block_size(raw) - SIZEOF_ADB_BLOCK
              IN /\ db' = [db EXCEPT !.adb = [ptr |-> malloc_ok,
                                              len |-> adb_block_length(raw),
                                              bytes |-> p]]
                 /\ hist' = Append(hist, Event(ADB_BLOCK_ADB, rd = "full", FALSE, FALSE))
                 /\ CASE rd = "full" -> UNCHANGED <<pc, r, is>>
                      [] rd = "short" -> stream_err(sz - 1, FALSE)
                      [] rd = "error" -> stream_err(-EIO, TRUE)
    /\ UNCHANGED <<t, vfy, trusted, os, wo, srcdb>>

\* case ADB_BLOCK_SIG: the record is fetched and, while untrusted, verified
m_stream_sig ==
    /\ stream_reads(ADB_BLOCK_SIG)
    /\ ~stream_order_bad(ADB_BLOCK_SIG)
    /\ block_no' = block_no + 1
    /\ IF APK_BLOB_IS_NULL(db.adb)
       THEN /\ stream_bad_msg
            /\ hist' = Append(hist, Event(ADB_BLOCK_SIG, FALSE, FALSE, FALSE))
            /\ UNCHANGED <<vfy, trusted>>
       ELSE \E rd \in BodyReads, sigb \in SigBlobs :
              IF rd # "full"
              THEN /\ stream_err(IF rd = "short" THEN -ENOMSG ELSE -EIO, rd = "error")
                   /\ hist' = Append(hist, Event(ADB_BLOCK_SIG, FALSE, FALSE, FALSE))
                   /\ UNCHANGED <<vfy, trusted>>
              ELSE LET v == adb_trust_verify_signature(t, db, vfy, sigb)
                   IN /\ IF ~trusted
                         THEN vfy' = v.vfy /\ trusted' = (v.r = 0)
                         ELSE UNCHANGED <<vfy, trusted>>
                      /\ hist' = Append(hist, Event(ADB_BLOCK_SIG, TRUE,
                                                    ~trusted /\ v.r = 0, FALSE))
                      /\ UNCHANGED <<pc, r, is>>
    /\ UNCHANGED <<db, t, os, wo, srcdb>>

\* a DATA case that does not look at trusted
stream_data_nokey_unchecked == FALSE

\* if (!trusted) of case ADB_BLOCK_DATA
stream_data_nokey == ~trusted

\* case ADB_BLOCK_DATA: needs trust, then runs datacb over the segment and
\* skips what the callback left unread
m_stream_data ==
    /\ stream_reads(ADB_BLOCK_DATA)
    /\ ~stream_order_bad(ADB_BLOCK_DATA)
    /\ block_no' = block_no + 1
    /\ IF APK_BLOB_IS_NULL(db.adb)
       THEN /\ stream_bad_msg
            /\ hist' = Append(hist, Event(ADB_BLOCK_DATA, FALSE, FALSE, FALSE))
       ELSE IF stream_data_nokey
       THEN /\ stream_err(-ENOKEY, FALSE)
            /\ hist' = Append(hist, Event(ADB_BLOCK_DATA, FALSE, FALSE, FALSE))
       ELSE \E cbr \in {0, 1, -EIO}, bytes_left \in BOOLEAN, rd \in BodyReads :
              /\ hist' = Append(hist, Event(ADB_BLOCK_DATA,
                                            cbr >= 0 /\ (bytes_left => rd # "error"),
                                            FALSE, TRUE))
              /\ IF cbr < 0 THEN stream_err(cbr, TRUE)
                 ELSE IF bytes_left /\ rd = "error" THEN stream_err(-EIO, TRUE)
                 ELSE UNCHANGED <<pc, r, is>>
    /\ UNCHANGED <<db, t, vfy, trusted, os, wo, srcdb>>

\* default: any other block type
m_stream_default ==
    /\ stream_reads(ADB_BLOCK_RESERVED)
    /\ ~stream_order_bad(ADB_BLOCK_RESERVED)
    /\ block_no' = block_no + 1
    /\ stream_bad_msg
    /\ hist' = Append(hist, Event(ADB_BLOCK_RESERVED, FALSE, FALSE, FALSE))
    /\ UNCHANGED <<db, t, vfy, trusted, os, wo, srcdb>>

NextStream ==
    \/ m_stream_hdr
    \/ m_stream_end
    \/ m_stream_trunc
    \/ m_stream_order
    \/ m_stream_adb
    \/ m_stream_sig
    \/ m_stream_data
    \/ m_stream_default

SpecStream == InitStream /\ [][NextStream]_vars

----------------------------------------------------------------------------
(* Block framer and __adb_m_parse (adb_m_blob, adb_m_map) *)

\* adb_block_validate with the raw size tested where the padded size belongs
adb_block_validate_raw(pos, len, raw) ==
    IF pos = len THEN "end"
    ELSE IF SIZEOF_ADB_BLOCK > len - pos THEN "bad"
    ELSE IF raw < SIZEOF_ADB_BLOCK THEN "bad"
    ELSE IF raw > len - pos THEN "bad"
    ELSE "blk"

\* adb_block_validate for the block at offset pos of a range of len bytes
\* whose header declares raw: "end" (NULL), "bad" (ERR_PTR(-EBADMSG)) or "blk"
adb_block_validate(pos, len, raw) ==
    IF pos = len THEN "end"
    ELSE IF SIZEOF_ADB_BLOCK > len - pos THEN "bad"
    ELSE IF raw < SIZEOF_ADB_BLOCK THEN "bad"
    ELSE IF adb_block_size(raw) > len - pos THEN "bad"
    ELSE "blk"

\* adb_free: a mapped database unmaps its region
adb_free(d) == IF d.mmap.ptr THEN [d EXCEPT !.mmap.mapped = FALSE] ELSE d

\* the declared raw sizes of the blocks of a byte range
RawSizes == {3, 4, 5, 36}

\* the lengths of the byte ranges handed to the parser
RangeLens == {ADB_BLOCK_ALIGNMENT * k : k \in 0..MaxBlocks}
                \cup {ADB_BLOCK_ALIGNMENT * k + 2 : k \in 0..MaxBlocks}

\* the payload bytes of a block of the given raw size
BlockPayloads(raw) == {p \in Payloads \cup {[i \in 1..32 |-> 0]} : Len(p) = adb_block_length(raw)}

\* one entry of hist per block the enumeration yields: its type, whether its
\* payload is a signature record that verifies against the database as it
\* stands, whether adb_trust_verify_signature was called for it, and whether
\* that call returned 0
ParseEvent(type, valid, tried, verified) ==
    [type |-> type, valid |-> valid, tried |-> tried, verified |-> verified]

\* a byte range under enumeration: its length, the offset of the next block,
\* whether the enumeration ended on a block that fails validation, and (map
\* mode) the size of the file and the schema the caller expects
Range(mode, len, size, schema) ==
    [mode |-> mode, len |-> len, pos |-> 0, bad |-> FALSE, parsed |-> FALSE,
     size |-> size, expected_schema |-> schema]

InitParse ==
    /\ pc = "open"
    /\ db = ZeroDb
    /\ t \in {NullTrust, ReaderTrust}
    /\ vfy = EmptyVfy
    /\ trusted = t.null
    /\ block_no = 0
    /\ r = -EBADMSG
    /\ is \in {Range("blob", n, 0, 0) : n \in RangeLens}
              \cup {Range("map", n, SIZEOF_ADB_HEADER + n, s) : n \in RangeLens, s \in 0..1}
              \cup {Range("map", 0, SIZEOF_ADB_BLOCK, 0)}
    /\ os = NoOutput
    /\ wo = NoObj
    /\ srcdb = ZeroDb
    /\ hist = <<>>

\* adb_m_blob: *db = { .data = blob }, then __adb_m_parse
m_blob ==
    /\ pc = "open"
    /\ is.mode = "blob"
    /\ db' = [ZeroDb EXCEPT !.data = [ptr |-> TRUE, len |-> is.len, bytes |-> <<>>]]
    /\ pc' = "parse"
    /\ UNCHANGED <<t, vfy, trusted, block_no, r, is, os, hist, wo, srcdb>>

\* adb_m_map up to the call of __adb_m_parse: fstat, mmap, magic and schema
m_map ==
    /\ pc = "open"
    /\ is.mode = "map"
    /\ IF is.size < SIZEOF_ADB_HEADER
       THEN pc' = "done" /\ r' = -EIO /\ UNCHANGED db
       ELSE \E h \in Hdrs :
              LET mapped == [ZeroDb EXCEPT !.mmap = [ptr |-> TRUE, len |-> is.size,
                                                     mapped |-> TRUE]]
              IN IF \/ h.magic # ADB_FORMAT_MAGIC
                    \/ (is.expected_schema # 0 /\ is.expected_schema # h.schema)
                 THEN /\ db' = adb_free(mapped)
                      /\ pc' = "done"
                      /\ r' = -EBADMSG
                 ELSE /\ db' = [mapped EXCEPT
                                  !.hdr = h,
                                  !.data = [ptr |-> TRUE,
                                            len |-> mapped.mmap.len - SIZEOF_ADB_HEADER,
                                            bytes |-> <<>>]]
                      /\ pc' = "parse"
                      /\ UNCHANGED r
    /\ UNCHANGED <<t, vfy, trusted, block_no, is, os, hist, wo, srcdb>>

\* the tail of __adb_m_parse and of its caller: r is decided, the arena is
\* dropped on failure, and adb_m_map frees the database on failure
\* a result in which the trust test comes before the framing error
parse_result_trust_first(bad) ==
    IF ~trusted THEN -ENOKEY
    ELSE IF bad THEN -EBADMSG
    ELSE IF db.adb.ptr THEN 0
    ELSE -EBADMSG

parse_result(bad) ==
    IF bad THEN -EBADMSG
    ELSE IF ~trusted THEN -ENOKEY
    ELSE IF db.adb.ptr THEN 0
    ELSE -EBADMSG

parse_return(bad) ==
    LET rv == parse_result(bad)
        d1 == IF rv # 0 THEN [db EXCEPT !.adb = APK_BLOB_NULL] ELSE db
    IN /\ r' = rv
       /\ db' = IF is.mode = "map" /\ rv # 0 THEN adb_free(d1) ELSE d1
       /\ pc' = "done"
       /\ is' = [is EXCEPT !.bad = bad, !.parsed = TRUE]

\* adb_foreach_block ends: adb_block_first / adb_block_next returns NULL
m_parse_end ==
    /\ pc = "parse"
    /\ adb_block_validate(is.pos, db.data.len, SIZEOF_ADB_BLOCK) = "end"
    /\ parse_return(FALSE)
    /\ UNCHANGED <<t, vfy, trusted, block_no, os, hist, wo, srcdb>>

\* adb_block_first / adb_block_next returns ERR_PTR(-EBADMSG)
m_parse_bad ==
    /\ pc = "parse"
    /\ \E raw \in RawSizes : adb_block_validate(is.pos, db.data.len, raw) = "bad"
    /\ parse_return(TRUE)
    /\ UNCHANGED <<t, vfy, trusted, block_no, os, hist, wo, srcdb>>

\* the enumeration yields a block of the given type and raw size
parse_yields(raw) ==
    /\ pc = "parse"
    /\ block_no < MaxBlocks
    /\ adb_block_validate(is.pos, db.data.len, raw) = "blk"
    /\ is' = [is EXCEPT !.pos = @ + adb_block_size(raw)]
    /\ block_no' = block_no + 1

\* case ADB_BLOCK_ADB: the first ADB block becomes the arena
m_parse_adb ==
    /\ \E raw \in RawSizes :
         /\ parse_yields(raw)
         /\ \E p \in BlockPayloads(raw) :
              db' = IF ~APK_BLOB_IS_NULL(db.adb) THEN db
                    ELSE [db EXCEPT !.adb = APK_BLOB_PTR_LEN(p)]
    /\ hist' = Append(hist, ParseEvent(ADB_BLOCK_ADB, FALSE, FALSE, FALSE))
    /\ UNCHANGED <<pc, t, vfy, trusted, r, os, wo, srcdb>>

\* case ADB_BLOCK_SIG: once the arena is known and while untrusted, verify
m_parse_sig ==
    /\ \E raw \in RawSizes : parse_yields(raw)
    /\ \E sigb \in SigBlobs :
         LET tried == ~APK_BLOB_IS_NULL(db.adb) /\ ~trusted
             v == adb_trust_verify_signature(t, db, vfy, sigb)
             valid == ~t.null /\ adb_trust_verify_signature(t, db, EmptyVfy, sigb).r = 0
         IN /\ IF tried
               THEN vfy' = v.vfy /\ trusted' = (v.r = 0)
               ELSE UNCHANGED <<vfy, trusted>>
            /\ hist' = Append(hist, ParseEvent(ADB_BLOCK_SIG, valid, tried, tried /\ v.r = 0))
    /\ UNCHANGED <<pc, db, t, r, os, wo, srcdb>>

\* default: DATA and reserved blocks are passed over
m_parse_other ==
    /\ \E raw \in RawSizes : parse_yields(raw)
    /\ \E type \in {ADB_BLOCK_DATA, ADB_BLOCK_RESERVED} :
         hist' = Append(hist, ParseEvent(type, FALSE, FALSE, FALSE))
    /\ UNCHANGED <<pc, db, t, vfy, trusted, r, os, wo, srcdb>>

NextParse ==
    \/ m_blob
    \/ m_map
    \/ m_parse_end
    \/ m_parse_bad
    \/ m_parse_adb
    \/ m_parse_sig
    \/ m_parse_other

SpecParse == InitParse /\ [][NextParse]_vars

----------------------------------------------------------------------------
(* Signing a database and verifying its signature records *)

\* the arenas that get signed: one or two bytes
SigArenas == {<<a>> : a \in 0..MaxByte} \cup {<<a, b>> : a, b \in 0..MaxByte}

\* the values a byte is altered to
TamperBytes == 0..MaxByte \cup {127}

PrivLists == {<<KeyA>>, <<KeyB, KeyA>>, <<KeyC>>, <<>>}
TrustLists == {<<KeyA>>, <<KeyB, KeyA>>, <<KeyC, KeyA>>, <<KeyB>>, <<>>}

\* hist of this specification: the header and arena bytes as they were signed,
\* the index k in os.out of the record last verified since the database was
\* last altered (0: none), whether that
\* verification started from an empty verify context, and that context
SigHist(h, a, k, fresh, v0) ==
    [signed_hdr |-> h, signed_adb |-> a, k |-> k, fresh |-> fresh, v0 |-> v0]

InitSig ==
    /\ pc = "sign"
    /\ \E h \in {x \in Hdrs : x.magic = ADB_FORMAT_MAGIC}, a \in SigArenas :
         /\ db = [ZeroDb EXCEPT !.hdr = h, !.adb = APK_BLOB_PTR_LEN(a)]
         /\ hist = SigHist(hdr_bytes(h), a, 0, FALSE, EmptyVfy)
    /\ \E pub \in TrustLists, priv \in PrivLists : t = Trust(pub, priv)
    /\ vfy = EmptyVfy
    /\ trusted = FALSE
    /\ block_no = 0
    /\ r = 0
    /\ is = NoStream
    /\ os = NoOutput
    /\ wo = NoObj
    /\ srcdb = ZeroDb

\* adb_trust_write_signatures(t, db, NULL, os), as adb_c_adb calls it
sig_write ==
    /\ pc = "sign"
    /\ LET w == adb_trust_write_signatures(t, db, EmptyVfy, os)
       IN os' = w.os /\ r' = w.r
    /\ pc' = "signed"
    /\ UNCHANGED <<db, t, vfy, trusted, block_no, is, hist, wo, srcdb>>

\* one byte of the container header is altered
sig_tamper_hdr ==
    /\ pc = "signed"
    /\ \E i \in 1..SIZEOF_ADB_HEADER, b \in TamperBytes :
         /\ hdr_bytes(db.hdr)[i] # b
         /\ db' = [db EXCEPT !.hdr = hdr_of_bytes([hdr_bytes(db.hdr) EXCEPT ![i] = b])]
    /\ pc' = "tampered"
    /\ hist' = [hist EXCEPT !.k = 0]
    /\ UNCHANGED <<t, vfy, trusted, block_no, r, is, os, wo, srcdb>>

\* one byte of the ADB block payload is altered
sig_tamper_adb ==
    /\ pc = "signed"
    /\ \E i \in 1..db.adb.len, b \in TamperBytes :
         /\ db.adb.bytes[i] # b
         /\ db' = [db EXCEPT !.adb.bytes[i] = b]
    /\ pc' = "tampered"
    /\ hist' = [hist EXCEPT !.k = 0]
    /\ UNCHANGED <<t, vfy, trusted, block_no, r, is, os, wo, srcdb>>

\* adb_trust_verify_signature on a record that was written, with an empty
\* verify context or with the one the last verification left
sig_verify ==
    /\ pc \in {"signed", "tampered"}
    /\ \E k \in 1..Len(os.out), fresh \in BOOLEAN :
         LET v0 == IF fresh THEN EmptyVfy ELSE vfy
             v == adb_trust_verify_signature(t, db, v0, os.out[k].body)
         IN /\ r' = v.r
            /\ vfy' = v.vfy
            /\ hist' = [hist EXCEPT !.k = k, !.fresh = fresh, !.v0 = v0]
    /\ UNCHANGED <<pc, db, t, trusted, block_no, is, os, wo, srcdb>>

NextSig ==
    \/ sig_write
    \/ sig_tamper_hdr
    \/ sig_tamper_adb
    \/ sig_verify

SpecSig == InitSig /\ [][NextSig]_vars

----------------------------------------------------------------------------
(* Values *)

ADB_TYPE_SPECIAL == 0
ADB_TYPE_INT == 1
ADB_TYPE_INT_32 == 2
ADB_TYPE_BLOB_8 == 8
ADB_TYPE_BLOB_16 == 9
ADB_TYPE_BLOB_32 == 10
ADB_TYPE_ARRAY == 13
ADB_TYPE_OBJECT == 14

\* ADB_VAL(type, value): the 4-bit tag and the 28-bit payload of an adb_val_t
ADB_VAL(type, value) == [type |-> type, value |-> value]
ADB_NULL == ADB_VAL(ADB_TYPE_SPECIAL, 0)

\* an adb_val_t as it lies in memory (tag in the top four bits), and back
val_bytes(v) == le_bytes(v.value, 3) \o <<v.type * 16 + v.value \div 16777216>>
val_of_bytes(bs) ==
    ADB_VAL(bs[4] \div 16, le_value(SubSeq(bs, 1, 3)) + 16777216 * (bs[4] % 16))

----------------------------------------------------------------------------
(* Writer: raw append and interning *)

\* buckets handed to adb_w_init_dynamic
NumBuckets == 2
\* size of the buffer handed to adb_w_init_static
StaticBufSize == 8
\* the arena is written up to this length
MaxArena == 12

RECURSIVE Zeroes(_)
Zeroes(n) == IF n = 0 THEN <<>> ELSE <<0>> \o Zeroes(n - 1)

RECURSIVE iovec_bytes(_)
iovec_bytes(vec) == IF vec = <<>> THEN <<>> ELSE Head(vec) \o iovec_bytes(Tail(vec))

iovec_len(vec) == Len(iovec_bytes(vec))

RECURSIVE xor_bits(_, _, _)
xor_bits(a, b, n) ==
    IF n = 0 THEN 0 ELSE ((a + b) % 2) + 2 * xor_bits(a \div 2, b \div 2, n - 1)

\* a 32-bit hash value is kept as two 16-bit halves
Hash32(hi, lo) == [hi |-> hi, lo |-> lo]

\* one round of apk_blob_hash_seed: h = h * 33 ^ byte, modulo 2^32
hash_round(h, byte) ==
    LET lo33 == h.lo * 33
        lo == lo33 % 65536
        hi == (h.hi * 33 + lo33 \div 65536) % 65536
    IN Hash32(hi, (lo \div 256) * 256 + xor_bits(lo % 256, byte, 8))

\* the rounds over bytes[lo..hi], the range halved at each step
RECURSIVE hash_range(_, _, _, _)
hash_range(bytes, lo, hi, seed) ==
    IF lo > hi THEN seed
    ELSE IF lo = hi THEN hash_round(seed, bytes[lo])
    ELSE LET mid == (lo + hi) \div 2
             left == hash_range(bytes, lo, mid, seed)
         IN IF left.lo >= 0 THEN hash_range(bytes, mid + 1, hi, left) ELSE left

apk_blob_hash_seed(bytes, seed) == hash_range(bytes, 1, Len(bytes), seed)

RECURSIVE iovec_hash(_, _)
iovec_hash(vec, hash) ==
    IF vec = <<>> THEN hash
    ELSE iovec_hash(Tail(vec), apk_blob_hash_seed(Head(vec), hash))

\* hash % db->num_buckets
hash_mod(h, n) == ((h.hi % n) * (65536 % n) + h.lo) % n

\* iovec_memcmp(vec, nvec, &db->adb.ptr[offs]): 0 when the bytes agree
iovec_memcmp(vec, d, offs) ==
    IF SubSeq(d.adb.bytes, offs + 1, offs + iovec_len(vec)) = iovec_bytes(vec) THEN 0 ELSE 1

\* while (db->adb.len + len > db->mmap.len) db->mmap.len *= 2
RECURSIVE grow_len(_, _)
grow_len(cap, need) == IF need > cap THEN grow_len(2 * cap, need) ELSE cap

\* a raw append whose grown buffer does not carry the old bytes over
adb_w_raw_fresh(d, vec, len, alignment) ==
    LET pad == ROUND_UP(d.adb.len, alignment) - d.adb.len
        at == d.adb.len + pad
        grow == at + len > d.mmap.len
        cap == IF ~grow THEN d.mmap.len
               ELSE grow_len(IF d.mmap.len = 0 THEN 8192 ELSE d.mmap.len, at + len)
        kept == IF grow THEN Zeroes(at) ELSE d.adb.bytes \o Zeroes(pad)
    IN IF grow /\ d.num_buckets = 0
       THEN [db |-> [d EXCEPT !.adb.bytes = kept, !.adb.len = at], offs |-> 0, abort |-> TRUE]
       ELSE [db |-> [d EXCEPT !.mmap.len = cap, !.adb.ptr = TRUE,
                              !.adb.bytes = kept \o iovec_bytes(vec), !.adb.len = at + len],
             offs |-> at, abort |-> FALSE]

\* adb_w_raw: pad to the alignment, grow the buffer, copy the fragments.
\* A database without buckets whose buffer is too small fails the assertion.
adb_w_raw(d, vec, len, alignment) ==
    LET pad == ROUND_UP(d.adb.len, alignment) - d.adb.len
        d1 == [d EXCEPT !.adb.bytes = @ \o Zeroes(pad), !.adb.len = @ + pad]
        grow == d1.adb.len + len > d1.mmap.len
        cap == IF ~grow THEN d1.mmap.len
               ELSE grow_len(IF d1.mmap.len = 0 THEN 8192 ELSE d1.mmap.len,
                             d1.adb.len + len)
        d2 == [d1 EXCEPT !.mmap.len = cap, !.adb.ptr = TRUE]
    IN IF grow /\ d1.num_buckets = 0
       THEN [db |-> d1, offs |-> 0, abort |-> TRUE]
       ELSE [db |-> [d2 EXCEPT !.adb.bytes = @ \o iovec_bytes(vec), !.adb.len = @ + len],
             offs |-> d2.adb.len, abort |-> FALSE]

\* if ((entry->offs & alignment) != 0) goto add;
entry_misaligned(offs, alignment) == (offs \div alignment) % 2 # 0

\* the walk over the chain of a bucket: the index of the entry to return
\* (hit), the index of the entry to fill (add), or neither (a new entry)
RECURSIVE bucket_walk(_, _, _, _, _, _, _)
bucket_walk(entries, i, hash, len, vec, d, alignment) ==
    IF i > Len(entries) THEN [hit |-> 0, add |-> i]
    ELSE LET entry == entries[i]
         IN IF entry.len = 0 THEN [hit |-> 0, add |-> i]
            ELSE IF entry.hash # hash
            THEN bucket_walk(entries, i + 1, hash, len, vec, d, alignment)
            ELSE IF entry.len = len /\ iovec_memcmp(vec, d, entry.offs) = 0
            THEN IF entry_misaligned(entry.offs, alignment)
                 THEN [hit |-> 0, add |-> i]
                 ELSE [hit |-> i, add |-> 0]
            ELSE bucket_walk(entries, i + 1, hash, len, vec, d, alignment)

\* adb_w_data: the interning append.  The chain of fixed-size buckets of one
\* hash slot is kept as one sequence of entries.
adb_w_data(d, vec, alignment) ==
    IF d.num_buckets = 0 THEN adb_w_raw(d, vec, iovec_len(vec), alignment)
    ELSE LET len == iovec_len(vec)
             hash == iovec_hash(vec, Hash32(0, 5381))
             bucketno == hash_mod(hash, d.num_buckets)
             w == bucket_walk(d.bucket[bucketno], 1, hash, len, vec, d, alignment)
             raw == adb_w_raw(d, vec, len, alignment)
             entry == [hash |-> hash, len |-> len, offs |-> raw.offs]
         IN IF w.hit # 0
            THEN [db |-> d, offs |-> d.bucket[bucketno][w.hit].offs, abort |-> FALSE]
            ELSE [raw EXCEPT !.db.bucket[bucketno] =
                      IF w.add > Len(@) THEN Append(@, entry) ELSE [@ EXCEPT ![w.add] = entry]]

\* adb_w_data1
adb_w_data1(d, bytes, alignment) == adb_w_data(d, <<bytes>>, alignment)

\* a root appended without aligning the arena first
adb_w_root_unaligned(d, root_val) == adb_w_raw(d, <<val_bytes(root_val)>>, 4, 1)

\* adb_w_root
adb_w_root(d, root_val) == adb_w_raw(d, <<val_bytes(root_val)>>, 4, 4)

\* a blob writer that knows the one-byte length prefix only
adb_w_blob_u8(d, b) ==
    LET w == adb_w_data(d, <<le_bytes(Len(b), 1), b>>, 1)
    IN IF Len(b) = 0 THEN [db |-> d, val |-> ADB_NULL, abort |-> FALSE, offs |-> 0]
       ELSE [db |-> w.db, val |-> ADB_VAL(ADB_TYPE_BLOB_8, w.offs), abort |-> w.abort,
             offs |-> w.offs]

\* adb_w_blob: [db, val, abort]
adb_w_blob(d, b) ==
    LET n == Len(b)
        width == IF n > 65535 THEN 4 ELSE IF n > 255 THEN 2 ELSE 1
        o == IF n > 65535 THEN ADB_TYPE_BLOB_32
             ELSE IF n > 255 THEN ADB_TYPE_BLOB_16
             ELSE ADB_TYPE_BLOB_8
        w == adb_w_data(d, <<le_bytes(n, width), b>>, width)
    IN IF n = 0 THEN [db |-> d, val |-> ADB_NULL, abort |-> FALSE, offs |-> 0]
       ELSE [db |-> w.db, val |-> ADB_VAL(o, w.offs), abort |-> w.abort, offs |-> w.offs]

\* adb_w_int: [db, val, abort]
adb_w_int(d, val) ==
    LET w == adb_w_data1(d, le_bytes(val, 4), 4)
    IN IF val >= 268435456
       THEN [db |-> w.db, val |-> ADB_VAL(ADB_TYPE_INT_32, w.offs), abort |-> w.abort,
             offs |-> w.offs]
       ELSE [db |-> d, val |-> ADB_VAL(ADB_TYPE_INT, val), abort |-> FALSE, offs |-> 0]

\* adb_r_root
adb_r_root(d) ==
    IF d.adb.len < 4 THEN ADB_NULL
    ELSE val_of_bytes(SubSeq(d.adb.bytes, d.adb.len - 3, d.adb.len))

\* adb_r_deref: the arena offset of the object, or NULL when it does not fit
NULL == -1
adb_r_deref(d, v, offs, sz) ==
    IF offs + v.value + sz > d.adb.len THEN NULL ELSE offs + v.value

\* the bytes at [p, p + n) of the arena
arena_bytes(d, p, n) == SubSeq(d.adb.bytes, p + 1, p + n)

\* sizeof of a pointer: 4 on an ILP32 build, 8 on an LP64 build
SIZEOF_POINTER == {4, 8}

\* adb_r_int; sizeof_int4 is the build's value of 'sizeof int4' (int4 is a
\* uint32_t pointer)
adb_r_int(d, v, sizeof_int4) ==
    IF v.type = ADB_TYPE_INT THEN v.value
    ELSE IF v.type = ADB_TYPE_INT_32
    THEN LET int4 == adb_r_deref(d, v, 0, sizeof_int4)
         IN IF int4 = NULL THEN 0 ELSE le_value(arena_bytes(d, int4, 4))
    ELSE 0

\* a read through a null pointer
Fault == [ptr |-> FALSE, len |-> -1, bytes |-> <<>>]

\* one case of adb_r_blob: a length prefix of 'width' bytes, then the data
r_blob_prefixed(d, v, width) ==
    LET blob == adb_r_deref(d, v, 0, width)
        len == le_value(arena_bytes(d, blob, width))
        data == adb_r_deref(d, v, width, len)
    IN IF blob = NULL THEN Fault
       ELSE IF data = NULL THEN [ptr |-> FALSE, len |-> len, bytes |-> <<>>]
       ELSE [ptr |-> TRUE, len |-> len, bytes |-> arena_bytes(d, data, len)]

\* adb_r_blob
adb_r_blob(d, v) ==
    IF v.type = ADB_TYPE_BLOB_8 THEN r_blob_prefixed(d, v, 1)
    ELSE IF v.type = ADB_TYPE_BLOB_16 THEN r_blob_prefixed(d, v, 2)
    ELSE IF v.type = ADB_TYPE_BLOB_32 THEN r_blob_prefixed(d, v, 4)
    ELSE APK_BLOB_NULL

\* adb_reset
adb_reset(d) ==
    [d EXCEPT !.bucket = [b \in DOMAIN @ |-> <<>>], !.adb.len = 0, !.adb.bytes = <<>>]

\* adb_w_init_dynamic(db, schema, buckets, num_buckets)
adb_w_init_dynamic(schema, num_buckets) ==
    [ZeroDb EXCEPT !.hdr = [magic |-> ADB_FORMAT_MAGIC, schema |-> schema],
                   !.num_buckets = num_buckets,
                   !.bucket = [b \in 0..(num_buckets - 1) |-> <<>>]]

\* adb_w_init_static(db, buf, bufsz)
adb_w_init_static(bufsz) ==
    [ZeroDb EXCEPT !.hdr = [magic |-> ADB_FORMAT_MAGIC, schema |-> 0],
                   !.adb.ptr = TRUE,
                   !.mmap.len = bufsz]

----------------------------------------------------------------------------
(* Writer: a caller appending values to a writable database *)

\* the blob <<0, 0, 16>> is stored as the bytes 3, 0, 0, 16, which are also
\* the bytes of the integer 2^28 + 3
WBlobs == {<<b>> : b \in 0..MaxByte} \cup {<<0, 1>>, <<>>, <<0, 0, 16>>}
WInts == {7, 268435456, 268435459}
RootVals == {ADB_NULL, ADB_VAL(ADB_TYPE_INT, 7), ADB_VAL(ADB_TYPE_OBJECT, 4),
             ADB_VAL(ADB_TYPE_BLOB_8, 16777217)}

\* what the caller has seen: the last call (op), the bytes and alignment it
\* handed to adb_w_data, the offset it got back, the arena length before the
\* call, the interned writes before the call (prev) and after it (seen), the
\* value handed to adb_w_root (v), the function called (call), its argument
\* (arg) and the value it returned (val)
WHist(op, data, alignment, offs, len_before, prev, seen, v, call, arg, val) ==
    [op |-> op, data |-> data, alignment |-> alignment, offs |-> offs,
     len_before |-> len_before, prev |-> prev, seen |-> seen, v |-> v,
     call |-> call, arg |-> arg, val |-> val]

\* lengths of the blobs that need a two-byte and a four-byte length prefix
Blob16Len == 256
Blob32Len == 65536
\* a static buffer that holds the largest blob
LargeBufSize == 65548
\* large blobs are written while the arena is at most this long
LargeAt == 3

\* a static buffer whose size is not a multiple of 4
OddBufSize == 6

LargeBlobs == {[i \in 1..n |-> i % 251] : n \in {Blob16Len, Blob32Len}}

InitW ==
    /\ pc = "writing"
    /\ db \in {adb_w_init_dynamic(1, NumBuckets), adb_w_init_static(StaticBufSize),
               adb_w_init_static(LargeBufSize), adb_w_init_static(OddBufSize)}
    /\ hist = WHist("init", <<>>, 1, 0, 0, {}, {}, ADB_NULL, "init", 0, ADB_NULL)
    /\ t = NullTrust
    /\ vfy = EmptyVfy
    /\ trusted = FALSE
    /\ block_no = 0
    /\ r = 0
    /\ is = NoStream
    /\ os = NoOutput
    /\ wo = NoObj
    /\ srcdb = ZeroDb

\* the caller's record of a call that reached adb_w_data
w_data_hist(w, data, alignment, call, arg) ==
    LET e == [data |-> data, alignment |-> alignment, offs |-> w.offs]
    IN WHist("data", data, alignment, w.offs, db.adb.len, hist.seen,
             IF db.num_buckets # 0 THEN hist.seen \cup {e} ELSE hist.seen, ADB_NULL,
             call, arg, w.val)

\* the caller's record of a call that returned an inline value
w_inline_hist(op, call, arg, val) ==
    WHist(op, <<>>, 1, 0, db.adb.len, hist.seen, hist.seen, ADB_NULL, call, arg, val)

w_blob ==
    /\ pc = "writing"
    /\ \E b \in WBlobs :
         \E w \in {adb_w_blob(db, b)} :
            /\ w.db.adb.len <= MaxArena
            /\ db' = w.db
            /\ pc' = IF w.abort THEN "abort" ELSE "writing"
            /\ hist' = IF w.abort THEN hist
                       ELSE IF b = <<>> THEN w_inline_hist("null", "blob", b, w.val)
                       ELSE w_data_hist(w, <<Len(b)>> \o b, 1, "blob", b)
    /\ UNCHANGED <<t, vfy, trusted, block_no, r, is, os, wo, srcdb>>

\* adb_w_blob of a blob of 256 bytes or more; the hash of the largest one is
\* not computed, it goes to a database without buckets
w_blob_large ==
    /\ pc = "writing"
    /\ db.adb.len <= LargeAt
    /\ \E b \in LargeBlobs :
         /\ Len(b) > 65535 => db.num_buckets = 0
         /\ \E w \in {adb_w_blob(db, b)}, width \in {IF Len(b) > 65535 THEN 4 ELSE 2} :
              /\ db' = w.db
              /\ pc' = IF w.abort THEN "abort" ELSE "writing"
              /\ hist' = IF w.abort THEN hist
                         ELSE w_data_hist(w, le_bytes(Len(b), width) \o b, width, "blob", b)
    /\ UNCHANGED <<t, vfy, trusted, block_no, r, is, os, wo, srcdb>>

w_int ==
    /\ pc = "writing"
    /\ \E val \in WInts :
         \E w \in {adb_w_int(db, val)} :
            /\ w.db.adb.len <= MaxArena
            /\ db' = w.db
            /\ pc' = IF w.abort THEN "abort" ELSE "writing"
            /\ hist' = IF w.abort THEN hist
                       ELSE IF w.val.type = ADB_TYPE_INT
                       THEN w_inline_hist("int", "int", val, w.val)
                       ELSE w_data_hist(w, le_bytes(val, 4), 4, "int", val)
    /\ UNCHANGED <<t, vfy, trusted, block_no, r, is, os, wo, srcdb>>

w_root ==
    /\ pc = "writing"
    /\ \E v \in RootVals :
         \E w \in {adb_w_root(db, v)} :
            /\ w.db.adb.len <= MaxArena
            /\ db' = w.db
            /\ pc' = IF w.abort THEN "abort" ELSE "writing"
            /\ hist' = IF w.abort THEN hist
                       ELSE WHist("root", val_bytes(v), 4, w.offs, db.adb.len,
                                  hist.seen, hist.seen, v, "root", v, ADB_NULL)
    /\ UNCHANGED <<t, vfy, trusted, block_no, r, is, os, wo, srcdb>>

w_reset ==
    /\ pc = "writing"
    /\ hist.op # "reset"
    /\ db' = adb_reset(db)
    /\ hist' = WHist("reset", <<>>, 1, 0, db.adb.len, hist.seen, {}, ADB_NULL,
                     "reset", 0, ADB_NULL)
    /\ UNCHANGED <<pc, t, vfy, trusted, block_no, r, is, os, wo, srcdb>>

NextW == w_blob \/ w_blob_large \/ w_int \/ w_root \/ w_reset

SpecW == InitW /\ [][NextW]_vars

----------------------------------------------------------------------------
(* Object and array builders, and the read view *)

ADB_TYPE_ERROR == 15
ADB_ERROR(rc) == ADB_VAL(ADB_TYPE_ERROR, rc)
ADB_IS_ERROR(v) == v.type = ADB_TYPE_ERROR

E2BIG == 7
EAPKFORMAT == 1026
EAPKDBFORMAT == 1028

ADBI_NUM_ENTRIES == 0
ADBI_FIRST == 1

\* a 32-bit word that holds a count, kept like every slot as tag and payload
word(n) == ADB_VAL(n \div 268435456, n % 268435456)
word_value(w) == w.type * 268435456 + w.value

\* the bytes of slots [0, n) of a vector
RECURSIVE vec_bytes(_, _, _)
vec_bytes(obj, k, n) == IF k >= n THEN <<>> ELSE val_bytes(obj[k]) \o vec_bytes(obj, k + 1, n)

\* adb_w_error: with assertions compiled in the process stops at assert(0);
\* without them the magic is cleared and ERROR(rc) returned
adb_w_error(d, rc, ndebug) ==
    [db |-> IF ndebug THEN [d EXCEPT !.hdr.magic = 0] ELSE d,
     val |-> ADB_ERROR(rc), abort |-> ~ndebug]

\* adb_wo_init(o, p, schema, db)
adb_wo_init(schema) ==
    [schema |-> schema, num |-> 1,
     obj |-> [k \in 0..(schema.num_fields - 1) |->
                 IF k = ADBI_NUM_ENTRIES THEN word(schema.num_fields) ELSE ADB_NULL]]

\* adb_wo_reset
adb_wo_reset(w) ==
    LET max == w.obj[ADBI_NUM_ENTRIES]
    IN [w EXCEPT !.obj = [k \in DOMAIN @ |->
                             IF k = ADBI_NUM_ENTRIES THEN max
                             ELSE IF k < w.num THEN ADB_NULL ELSE @[k]],
                 !.num = 1]

\* adb_wo_val: [db, wo, val, abort]
adb_wo_val(w, d, i, v, ndebug) ==
    IF i >= word_value(w.obj[ADBI_NUM_ENTRIES])
    THEN [wo |-> w] @@ adb_w_error(d, E2BIG, ndebug)
    ELSE IF ADB_IS_ERROR(v) THEN [wo |-> w] @@ adb_w_error(d, v.value, ndebug)
    ELSE [db |-> d, val |-> v, abort |-> FALSE,
          wo |-> [w EXCEPT !.num = IF v # ADB_NULL /\ i >= @ THEN i + 1 ELSE @,
                           !.obj[i] = v]]

\* the schema's get_default_int(i)
get_default_int(schema, i) == schema.defaults[i]

\* adb_wo_int
adb_wo_int(w, d, i, v, ndebug) ==
    LET wi == adb_w_int(d, v)
    IN IF w.schema.get_default_int /\ v = get_default_int(w.schema, i)
       THEN [db |-> d, wo |-> w, val |-> ADB_NULL, abort |-> FALSE]
       ELSE adb_wo_val(w, wi.db, i, wi.val, ndebug)

\* a commit that stores the vector up to num, trailing NULL slots included
commit_len_keep(obj, n) == n

\* length of the vector a commit stores: trailing NULL slots are dropped
RECURSIVE commit_len(_, _)
commit_len(obj, n) == IF n > 1 /\ obj[n - 1] = ADB_NULL THEN commit_len(obj, n - 1) ELSE n

\* __adb_w_obj (a schema without pre_commit): [db, wo, val, abort]
adb_w_obj_type(w, d, type) ==
    LET max == w.obj[ADBI_NUM_ENTRIES]
        n == commit_len(w.obj, w.num)
        obj == [w.obj EXCEPT ![ADBI_NUM_ENTRIES] = word(n)]
        wr == adb_w_data1(d, vec_bytes(obj, 0, n), 4)
        done == [adb_wo_reset([w EXCEPT !.obj = IF n > 1 THEN obj ELSE @])
                    EXCEPT !.obj[ADBI_NUM_ENTRIES] = max]
    IN IF n > 1
       THEN [db |-> wr.db, wo |-> done, val |-> ADB_VAL(type, wr.offs), abort |-> wr.abort]
       ELSE [db |-> d, wo |-> done, val |-> ADB_NULL, abort |-> FALSE]

adb_w_obj(w, d) == adb_w_obj_type(w, d, ADB_TYPE_OBJECT)
adb_w_arr(w, d) == adb_w_obj_type(w, d, ADB_TYPE_ARRAY)

\* the word at arena offset p
arena_word(d, p) == val_of_bytes(arena_bytes(d, p, 4))

\* adb_r_obj: the view [schema, num, obj]; obj is the arena offset of the
\* vector, NULL in the degenerate view
adb_r_obj(d, v, schema) ==
    LET err == [schema |-> schema, num |-> 1, obj |-> NULL]
        o1 == adb_r_deref(d, v, 0, 0)
        num == word_value(arena_word(d, o1))
        o2 == adb_r_deref(d, v, 0, 4 * num)
    IN IF v.type # ADB_TYPE_ARRAY /\ v.type # ADB_TYPE_OBJECT THEN err
       ELSE IF o1 = NULL THEN err
       ELSE IF o2 = NULL THEN err
       ELSE [schema |-> schema, num |-> num, obj |-> o2]

\* adb_ro_val on a read view
adb_ro_val(d, view, i) ==
    IF i >= view.num THEN ADB_NULL ELSE arena_word(d, view.obj + 4 * i)

\* adb_ro_int on a read view
adb_ro_int(d, view, i, sizeof_int4) ==
    LET val == adb_ro_val(d, view, i)
    IN IF val = ADB_NULL /\ view.schema.kind # "none" /\ view.schema.get_default_int
       THEN get_default_int(view.schema, i)
       ELSE adb_r_int(d, val, sizeof_int4)

EINVAL == 22

\* the fromstring callback of the scalar schema of an INT field: a decimal
\* number is written with adb_w_int, anything else is ERROR(EINVAL)
int_fromstring(d, text) ==
    IF text = "7" THEN [db |-> adb_w_int(d, 7).db, val |-> adb_w_int(d, 7).val]
    ELSE [db |-> d, val |-> ADB_ERROR(EINVAL)]

\* adb_w_fromstring for a field of the given kind; the object schemas of the
\* model have no fromstring callback
adb_w_fromstring(d, kind, text) ==
    IF kind = "INT" THEN int_fromstring(d, text)
    ELSE IF kind = "OBJECT" THEN [db |-> d, val |-> ADB_ERROR(EAPKDBFORMAT)]
    ELSE [db |-> d, val |-> ADB_ERROR(ENOSYS)]

\* adb_wo_val_fromstring
adb_wo_val_fromstring(w, d, i, text, ndebug) ==
    LET fs == adb_w_fromstring(d, w.schema.fields[i], text)
    IN IF i >= word_value(w.obj[ADBI_NUM_ENTRIES])
       THEN [wo |-> w] @@ adb_w_error(d, E2BIG, ndebug)
       ELSE [db |-> fs.db, val |-> fs.val, abort |-> FALSE,
             wo |-> [w EXCEPT !.num = IF i >= @ THEN i + 1 ELSE @, !.obj[i] = fs.val]]

\* apk_ostream_cancel
apk_ostream_cancel(o, rc) == IF o.rc = 0 THEN [o EXCEPT !.rc = rc] ELSE o

\* adb_c_header
adb_c_header(o, d) == [o EXCEPT !.hdr = @ \o hdr_bytes(d.hdr)]

\* adb_c_adb: [r, os]
adb_c_adb(o, d, trust) ==
    LET o1 == adb_c_block(adb_c_header(o, d), ADB_BLOCK_ADB, d.adb, d.adb.len)
        o2 == IF trust.null THEN o1
              ELSE adb_trust_write_signatures(trust, d, EmptyVfy, o1).os
    IN IF d.hdr.magic # ADB_FORMAT_MAGIC
       THEN [r |-> -EAPKFORMAT, os |-> apk_ostream_cancel(o, -EAPKFORMAT)]
       ELSE [r |-> o2.rc, os |-> o2]

----------------------------------------------------------------------------
(* A caller filling and committing an object builder *)

\* slots of the schema's vector: the length slot and NumFields - 1 fields
NumFields == 3
\* the arena is written up to this length
MaxObjArena == 16

\* an object schema: an INT field, then OBJECT fields; get_default_int(i),
\* where the schema has it, is i
ObjSchema(has_default) ==
    [kind |-> "OBJECT", num_fields |-> NumFields,
     fields |-> [k \in 1..NumFields |-> IF k = 1 THEN "INT" ELSE "OBJECT"],
     get_default_int |-> has_default, defaults |-> [k \in 1..NumFields |-> k],
     fromstring |-> FALSE]

OFields == 1..NumFields
OInts == {1, 268435456}
OVals == {ADB_NULL, ADB_ERROR(EINVAL)}
OTexts == {"7", "x"}

\* no adb_wo_int call to look back to
NoInts == [i |-> 0, v |-> 0]

\* what the caller has seen: the last call (op), whether an assert(0) has been
\* passed, which shows a build without assertions (ndebug), the slots and
\* num of the builder before the last
\* commit, the value the last call returned, the field and value of the
\* latest adb_wo_int call if no other kind of call has written that field
\* since (ints; field 0 for none), the same at the last commit (cints), and
\* whether some call returned an ERROR
OHist(op, ndebug, slots, num, val, ints, cints, erred) ==
    [op |-> op, ndebug |-> ndebug, slots |-> slots, num |-> num, val |-> val,
     ints |-> ints, cints |-> cints, erred |-> erred]

InitObj ==
    /\ pc = "writing"
    /\ db = adb_w_init_dynamic(1, NumBuckets)
    /\ wo = adb_wo_init(ObjSchema(TRUE))
    /\ hist = OHist("init", FALSE, <<>>, 1, ADB_NULL, NoInts, NoInts, FALSE)
    /\ t = NullTrust
    /\ vfy = EmptyVfy
    /\ trusted = FALSE
    /\ block_no = 0
    /\ r = 0
    /\ is = NoStream
    /\ os = NoOutput
    /\ srcdb = ZeroDb

\* the builds a call may run in: any until an assert(0) has been passed
Builds == IF hist.ndebug THEN {TRUE} ELSE BOOLEAN

\* the state after a builder call that returned w = [db, wo, val, abort]
obj_called(w, op, ints) ==
    /\ w.db.adb.len <= MaxObjArena
    /\ db' = w.db
    /\ wo' = w.wo
    /\ pc' = IF w.abort THEN "abort" ELSE "writing"
    /\ hist' = IF w.abort THEN hist
               ELSE [hist EXCEPT !.op = op, !.val = w.val, !.ints = ints,
                                 !.ndebug = @ \/ w.db.hdr.magic # db.hdr.magic,
                                 !.slots = <<>>, !.num = 1, !.cints = NoInts,
                                 !.erred = @ \/ ADB_IS_ERROR(w.val)]
    /\ UNCHANGED <<t, vfy, trusted, block_no, r, is, os, srcdb>>

o_wo_int ==
    /\ pc = "writing"
    /\ \E i \in OFields, v \in OInts, ndebug \in Builds :
         \E w \in {adb_wo_int(wo, db, i, v, ndebug)} :
            obj_called(w, "wo_int",
                       IF ADB_IS_ERROR(w.val) THEN hist.ints ELSE [i |-> i, v |-> v])

o_wo_val ==
    /\ pc = "writing"
    /\ \E i \in OFields, v \in OVals, ndebug \in Builds :
         \E w \in {adb_wo_val(wo, db, i, v, ndebug)} :
            obj_called(w, "wo_val", IF hist.ints.i = i THEN NoInts ELSE hist.ints)

o_wo_val_fromstring ==
    /\ pc = "writing"
    /\ \E i \in OFields, text \in OTexts, ndebug \in Builds :
         \E w \in {adb_wo_val_fromstring(wo, db, i, text, ndebug)} :
            obj_called(w, "wo_val_fromstring",
                       IF hist.ints.i = i THEN NoInts ELSE hist.ints)

o_w_obj ==
    /\ pc = "writing"
    /\ \E w \in {adb_w_obj(wo, db)} :
          /\ w.db.adb.len <= MaxObjArena
          /\ db' = w.db
          /\ wo' = w.wo
          /\ hist' = [hist EXCEPT !.op = "w_obj", !.val = w.val, !.slots = wo.obj,
                                  !.num = wo.num, !.cints = hist.ints, !.ints = NoInts]
    /\ UNCHANGED <<pc, t, vfy, trusted, block_no, r, is, os, srcdb>>

\* adb_wo_resetdb
o_resetdb ==
    /\ pc = "writing"
    /\ hist.op # "resetdb"
    /\ wo' = adb_wo_reset(wo)
    /\ db' = adb_reset(db)
    /\ hist' = [hist EXCEPT !.op = "resetdb", !.val = ADB_NULL, !.ints = NoInts,
                            !.slots = <<>>, !.num = 1, !.cints = NoInts]
    /\ UNCHANGED <<pc, t, vfy, trusted, block_no, r, is, os, srcdb>>

\* adb_c_adb to a fresh output stream, the caller's last step
o_c_adb ==
    /\ pc = "writing"
    /\ LET c == adb_c_adb(NoOutput, db, t)
       IN /\ os' = c.os
          /\ r' = c.r
    /\ pc' = "emitted"
    /\ hist' = [hist EXCEPT !.op = "c_adb"]
    /\ UNCHANGED <<db, t, vfy, trusted, block_no, is, wo, srcdb>>

NextObj ==
    \/ o_wo_int
    \/ o_wo_val
    \/ o_wo_val_fromstring
    \/ o_w_obj
    \/ o_resetdb
    \/ o_c_adb

SpecObj == InitObj /\ [][NextObj]_vars

----------------------------------------------------------------------------
(* Array builders: append, sort, find *)

\* adb_ra_num
adb_ra_num(w) == w.num - 1

\* adb_wa_append: [db, wo, val, abort]
adb_wa_append(w, d, v, ndebug) ==
    IF w.num >= word_value(w.obj[ADBI_NUM_ENTRIES])
    THEN [wo |-> w] @@ adb_w_error(d, E2BIG, ndebug)
    ELSE IF ADB_IS_ERROR(v) THEN [wo |-> w] @@ adb_w_error(d, v.value, ndebug)
    ELSE [db |-> d, val |-> v, abort |-> FALSE,
          wo |-> IF v # ADB_NULL THEN [w EXCEPT !.obj[w.num] = v, !.num = @ + 1] ELSE w]

\* the compare callback of the element object schema: orders by field 1
obj_compare(d1, o1, d2, o2) == adb_ro_int(d1, o1, 1, 4) - adb_ro_int(d2, o2, 1, 4)

\* the compare callback of the scalar int schema
int_compare(d1, v1, d2, v2) == adb_r_int(d1, v1, 4) - adb_r_int(d2, v2, 4)

\* wacmp, with __db1, __db2 and __schema handed over
wacmp(d1, v1, d2, v2, schema) ==
    obj_compare(d1, adb_r_obj(d1, v1, schema), d2, adb_r_obj(d2, v2, schema))

\* the orders qsort may leave slots 1..n of obj in, elements compared by wacmp
\* on database d: any arrangement in which no element is followed by a smaller
qsort_wacmp(obj, n, d, schema) ==
    LET perms == {p \in [1..n -> 1..n] : \A a, b \in 1..n : a # b => p[a] # p[b]}
        sorted(p) == \A k \in 1..(n - 1) :
                        wacmp(d, obj[p[k]], d, obj[p[k + 1]], schema) <= 0
    IN {[k \in DOMAIN obj |-> IF k \in 1..n THEN obj[p[k]] ELSE obj[k]] :
           p \in {q \in perms : sorted(q)}}

\* adb_wa_sort: the builders it may leave; only arrays of objects are sorted
adb_wa_sort(w, d) ==
    IF w.schema.fields[1] = "OBJECT"
    THEN {[w EXCEPT !.obj = o] : o \in qsort_wacmp(w.obj, adb_ra_num(w), d, w.schema.elem)}
    ELSE {w}

\* the loop of adb_wa_sort_unique: [obj, j]
RECURSIVE unique_loop(_, _, _, _)
unique_loop(obj, i, j, num) ==
    IF i > num THEN [obj |-> obj, j |-> j]
    ELSE IF obj[i] = obj[i - 1] THEN unique_loop(obj, i + 1, j, num)
    ELSE unique_loop([obj EXCEPT ![j] = obj[i]], i + 1, j + 1, num)

\* adb_wa_sort_unique: the builders it may leave
adb_wa_sort_unique(w, d) ==
    {LET num == adb_ra_num(s)
         u == unique_loop(s.obj, 2, 2, num)
     IN IF num >= 2 THEN [s EXCEPT !.obj = u.obj, !.num = u.j] ELSE s :
        s \in adb_wa_sort(w, d)}

\* arr->obj[k] of a read view, no bound checked: past the end of the arena
\* the word is whatever the memory holds (stray)
view_slot(d, view, k, stray) ==
    IF view.obj + 4 * k + 4 <= d.adb.len THEN arena_word(d, view.obj + 4 * k) ELSE stray

\* bsearch over slots l + 1 .. u of the view: [ndx, reads], ndx 0 for no match
RECURSIVE bsearch(_, _, _, _, _, _)
bsearch(kd, key, d, view, l, u) ==
    IF l >= u THEN [ndx |-> 0, reads |-> {}]
    ELSE LET idx == l + (u - l) \div 2
             sign == wacmp(kd, key, d, arena_word(d, view.obj + 4 * (idx + 1)), view.schema.elem)
             rest == IF sign < 0 THEN bsearch(kd, key, d, view, l, idx)
                     ELSE bsearch(kd, key, d, view, idx + 1, u)
         IN IF sign = 0 THEN [ndx |-> idx + 1, reads |-> {idx + 1}]
            ELSE [rest EXCEPT !.reads = @ \cup {idx + 1}]

\* the walk of adb_ra_find to the first equal element: [r, reads]
RECURSIVE find_first(_, _, _, _, _)
find_first(kd, key, d, view, cur) ==
    IF cur > 1
    THEN IF wacmp(kd, key, d, arena_word(d, view.obj + 4 * (cur - 1)), view.schema.elem) = 0
         THEN [find_first(kd, key, d, view, cur - 1) EXCEPT !.reads = @ \cup {cur - 1}]
         ELSE [r |-> cur, reads |-> {cur - 1}]
    ELSE [r |-> cur, reads |-> {}]

\* adb_ra_find(arr, cur, db, val): [r, reads], reads being the slots of arr
\* it looked at
adb_ra_find(d, view, cur, kd, key, stray) ==
    LET ndx == bsearch(kd, key, d, view, 0, view.num - 1)
        first == find_first(kd, key, d, view, ndx.ndx)
    IN IF cur = 0
       THEN IF ndx.ndx = 0 THEN [r |-> -1, reads |-> ndx.reads]
            ELSE [first EXCEPT !.reads = @ \cup ndx.reads]
       ELSE IF wacmp(kd, key, d, view_slot(d, view, cur + 1, stray), view.schema.elem) # 0
            THEN [r |-> -1, reads |-> {cur + 1}]
            ELSE [r |-> cur + 1, reads |-> {cur + 1}]

----------------------------------------------------------------------------
(* A caller filling, sorting, committing and searching an array *)

\* the elements an array builder has room for
MaxElems == 4

\* the schema of the objects held in an array: two INT fields, no defaults
ElemSchema ==
    [kind |-> "OBJECT", num_fields |-> 3, fields |-> <<"INT", "INT", "INT">>,
     get_default_int |-> FALSE, defaults |-> <<0, 0, 0>>, fromstring |-> FALSE]

\* an array schema with elements of the given kind
ArrSchema(kind) ==
    [kind |-> "ARRAY", num_fields |-> MaxElems + 1, fields |-> <<kind>>,
     elem |-> ElemSchema, get_default_int |-> FALSE, fromstring |-> FALSE]

\* fields 1 and 2 of the objects written to the database (0: field not set)
ElemFields == <<<<2, 0>>, <<2, 7>>, <<5, 0>>>>

\* adb_wo_int and adb_w_obj on a builder and its database, p = [wo, db]
elem_int(p, i, v) == IF v = 0 THEN p ELSE adb_wo_int(p.wo, p.db, i, v, TRUE)
elem_commit(p) == adb_w_obj(p.wo, p.db)

\* an object of ElemSchema committed to d: [db, val]
w_elem(d, f) ==
    elem_commit(elem_int(elem_int([wo |-> adb_wo_init(ElemSchema), db |-> d], 1, f[1]),
                         2, f[2]))

\* the object of fields f written after those of p: [db, vals]
elem_push(p, e) == [db |-> e.db, vals |-> Append(p.vals, e.val)]
elem_after(p, f) == elem_push(p, w_elem(p.db, f))

\* a database holding the objects of the first k entries of ElemFields:
\* [db, vals]
RECURSIVE elems_written(_)
elems_written(k) ==
    IF k = 0 THEN [db |-> adb_w_init_dynamic(1, NumBuckets), vals |-> <<>>]
    ELSE elem_after(elems_written(k - 1), ElemFields[k])

ArrDb == elems_written(Len(ElemFields))

\* the values a caller appends to an array of the given kind
elems_of(a, kind) ==
    IF kind = "OBJECT" THEN {a.vals[k] : k \in DOMAIN a.vals}
    ELSE {ADB_VAL(ADB_TYPE_INT, v) : v \in {2, 5, 9}}
ArrElems(kind) == elems_of(ArrDb, kind)

\* what the caller has seen: the last call, the builder before it, the value
\* a commit returned, and cursor, needle, result and slots read of a find
ArrHist(op, before, val, cur, key, res, reads) ==
    [op |-> op, before |-> before, val |-> val, cur |-> cur, key |-> key,
     res |-> res, reads |-> reads]

InitArr ==
    /\ pc = "building"
    /\ db = ArrDb.db
    /\ \E kind \in {"INT", "OBJECT"} : wo = adb_wo_init(ArrSchema(kind))
    /\ hist = ArrHist("init", NoObj, ADB_NULL, 0, ADB_NULL, 0, {})
    /\ t = NullTrust
    /\ vfy = EmptyVfy
    /\ trusted = FALSE
    /\ block_no = 0
    /\ r = 0
    /\ is = NoStream
    /\ os = NoOutput
    /\ srcdb = ZeroDb

a_wa_append ==
    /\ pc = "building"
    /\ \E v \in ArrElems(wo.schema.fields[1]), ndebug \in BOOLEAN :
         \E w \in {adb_wa_append(wo, db, v, ndebug)} :
            /\ db' = w.db
            /\ wo' = w.wo
            /\ pc' = IF w.abort THEN "abort" ELSE IF ADB_IS_ERROR(w.val) THEN "failed" ELSE pc
            /\ hist' = [hist EXCEPT !.op = "wa_append", !.val = w.val]
    /\ UNCHANGED <<t, vfy, trusted, block_no, r, is, os, srcdb>>

a_wa_sort ==
    /\ pc = "building"
    /\ wo' \in adb_wa_sort(wo, db)
    /\ pc' = "sorted"
    /\ hist' = [hist EXCEPT !.op = "wa_sort", !.before = wo]
    /\ UNCHANGED <<db, t, vfy, trusted, block_no, r, is, os, srcdb>>

a_wa_sort_unique ==
    /\ pc = "building"
    /\ wo' \in adb_wa_sort_unique(wo, db)
    /\ pc' = "sorted"
    /\ hist' = [hist EXCEPT !.op = "wa_sort_unique", !.before = wo]
    /\ UNCHANGED <<db, t, vfy, trusted, block_no, r, is, os, srcdb>>

a_w_arr ==
    /\ pc \in {"building", "sorted"}
    /\ \E w \in {adb_w_arr(wo, db)} :
          /\ db' = w.db
          /\ wo' = w.wo
          /\ hist' = [hist EXCEPT !.op = "w_arr", !.before = wo, !.val = w.val]
    /\ pc' = "committed"
    /\ UNCHANGED <<t, vfy, trusted, block_no, r, is, os, srcdb>>

\* adb_ra_find on the view of the committed array, from the start or from
\* a cursor within the array
a_ra_find ==
    /\ pc \in {"committed", "found"}
    /\ wo.schema.fields[1] = "OBJECT"
    /\ LET view == adb_r_obj(db, hist.val, wo.schema)
       IN /\ view.obj # NULL
          /\ \E cur \in 0..(view.num - 1), key \in ArrElems("OBJECT") :
               \E stray \in {ADB_NULL, key} :
                 \E f \in {adb_ra_find(db, view, cur, db, key, stray)} :
                    hist' = [hist EXCEPT !.op = "ra_find", !.cur = cur, !.key = key,
                                         !.res = f.r, !.reads = f.reads]
    /\ pc' = "found"
    /\ UNCHANGED <<db, t, vfy, trusted, block_no, r, is, os, wo, srcdb>>

NextArr ==
    \/ a_wa_append
    \/ a_wa_sort
    \/ a_wa_sort_unique
    \/ a_w_arr
    \/ a_ra_find

SpecArr == InitArr /\ [][NextArr]_vars

----------------------------------------------------------------------------
(* adb_w_copy: values copied from one database into another *)

\* ARRAY_SIZE(cpy)
CopySlots == 512

\* adb_w_copy(db, srcdb, v) for db # srcdb: [db, val, abort].  copy_slots is
\* its loop over the slots of an object: [db, cpy, abort]
RECURSIVE adb_w_copy(_, _, _, _)
RECURSIVE copy_slots(_, _, _, _, _, _, _)
copy_slots(d, s, obj, i, sz, cpy, ndebug) ==
    IF i >= sz THEN [db |-> d, cpy |-> cpy, abort |-> FALSE]
    ELSE LET c == adb_w_copy(d, s, adb_ro_val(s, obj, i), ndebug)
         IN IF c.abort THEN [db |-> c.db, cpy |-> cpy, abort |-> TRUE]
            ELSE copy_slots(c.db, s, obj, i + 1, sz, [cpy EXCEPT ![i] = c.val], ndebug)

adb_w_copy(d, s, v, ndebug) ==
    LET copy(sz, align) ==
            LET ptr == adb_r_deref(s, v, 0, sz)
                wr == adb_w_data1(d, arena_bytes(s, ptr, sz), align)
            IN IF ptr = NULL THEN [db |-> d, val |-> v, abort |-> TRUE]
               ELSE [db |-> wr.db, val |-> ADB_VAL(v.type, wr.offs), abort |-> wr.abort]
        prefix(width) == le_value(arena_bytes(s, adb_r_deref(s, v, 0, width), width))
        obj == adb_r_obj(s, v, NoSchema)
        sz == obj.num
        cpy == copy_slots(d, s, obj, ADBI_FIRST, sz,
                          [k \in 0..(sz - 1) |->
                              IF k = ADBI_NUM_ENTRIES THEN arena_word(s, obj.obj) ELSE ADB_NULL],
                          ndebug)
        wr == adb_w_data1(cpy.db, vec_bytes(cpy.cpy, 0, sz), 4)
    IN IF v.type \in {ADB_TYPE_SPECIAL, ADB_TYPE_INT} THEN [db |-> d, val |-> v, abort |-> FALSE]
       ELSE IF v.type = ADB_TYPE_INT_32 THEN copy(4, 4)
       ELSE IF v.type = ADB_TYPE_BLOB_8
       THEN IF adb_r_deref(s, v, 0, 1) = NULL THEN [db |-> d, val |-> v, abort |-> TRUE]
            ELSE copy(1 + prefix(1), 1)
       ELSE IF v.type = ADB_TYPE_BLOB_16
       THEN IF adb_r_deref(s, v, 0, 2) = NULL THEN [db |-> d, val |-> v, abort |-> TRUE]
            ELSE copy(1 + prefix(2), 1)
       ELSE IF v.type \in {ADB_TYPE_OBJECT, ADB_TYPE_ARRAY}
       THEN IF sz > CopySlots THEN adb_w_error(d, E2BIG, ndebug)
            ELSE IF obj.obj = NULL THEN [db |-> d, val |-> v, abort |-> TRUE]
            ELSE IF cpy.abort THEN [db |-> cpy.db, val |-> v, abort |-> TRUE]
            ELSE [db |-> wr.db, val |-> ADB_VAL(v.type, wr.offs), abort |-> wr.abort]
       ELSE adb_w_error(d, ENOSYS, ndebug)

\* calls of adb_w_copy and adb_w_blob a caller makes
MaxCopies == 3

\* a schema for objects of three fields
CopySchema ==
    [kind |-> "OBJECT", num_fields |-> 4, fields |-> <<"INT", "INT", "BLOB", "OBJECT">>,
     get_default_int |-> FALSE, defaults |-> <<0, 0, 0, 0>>, fromstring |-> FALSE]

\* adb_wo_val with the values vs[1..k] in fields 1..k of a builder and its
\* database, p = [wo, db]
RECURSIVE fill_vals(_, _, _)
fill_val(p, i, v) == adb_wo_val(p.wo, p.db, i, v, TRUE)
fill_vals(p, vs, k) == IF k = 0 THEN p ELSE fill_val(fill_vals(p, vs, k - 1), k, vs[k])

\* an object of CopySchema with fields vs committed to d: [db, val]
w_obj_of(d, vs) ==
    elem_commit(fill_vals([wo |-> adb_wo_init(CopySchema), db |-> d], vs, Len(vs)))

\* the steps that write the source database, each on p = [db, vals]
src_int(p, x) == elem_push(p, adb_w_int(p.db, x))
src_blob(p, b) == elem_push(p, adb_w_blob(p.db, b))
src_obj(p) == elem_push(p, w_obj_of(p.db, <<ADB_VAL(ADB_TYPE_INT, 7), p.vals[1], p.vals[2]>>))
src_outer(p) == elem_push(p, w_obj_of(p.db, <<p.vals[4]>>))
src_vals(p) ==
    [db |-> p.db,
     vals |-> {ADB_NULL, ADB_VAL(ADB_TYPE_INT, 7), ADB_VAL(ADB_TYPE_BLOB_32, 0)}
              \cup {p.vals[k] : k \in DOMAIN p.vals}]

\* the source database: an INT_32, a BLOB_8, a BLOB_16, an object of scalars
\* and blob, and an object holding that object; vals are the values written
SrcDb ==
    src_vals(src_outer(src_obj(
        src_blob(src_blob(src_int([db |-> adb_w_init_dynamic(1, NumBuckets), vals |-> <<>>],
                                  268435456),
                          <<1>>),
                 [i \in 1..Blob16Len |-> i % 251]))))

\* what the caller has seen: the last call, the value handed to adb_w_copy,
\* the value returned, and the number of calls
CopyHist(op, v, val, n) == [op |-> op, v |-> v, val |-> val, n |-> n]

InitCopy ==
    /\ pc = "copying"
    /\ db = adb_w_init_dynamic(1, NumBuckets)
    /\ srcdb = SrcDb.db
    /\ hist = CopyHist("init", ADB_NULL, ADB_NULL, 0)
    /\ t = NullTrust
    /\ vfy = EmptyVfy
    /\ trusted = FALSE
    /\ block_no = 0
    /\ r = 0
    /\ is = NoStream
    /\ os = NoOutput
    /\ wo = NoObj

c_w_copy ==
    /\ pc = "copying"
    /\ hist.n < MaxCopies
    /\ \E v \in SrcDb.vals, ndebug \in BOOLEAN :
         \E w \in {adb_w_copy(db, srcdb, v, ndebug)} :
            /\ db' = w.db
            /\ pc' = IF w.abort THEN "abort" ELSE pc
            /\ hist' = CopyHist("w_copy", v, w.val, hist.n + 1)
    /\ UNCHANGED <<t, vfy, trusted, block_no, r, is, os, wo, srcdb>>

\* adb_w_copy(db, db, v): the value is returned as it is
c_w_copy_same ==
    /\ pc = "copying"
    /\ hist.op # "w_copy_same"
    /\ \E v \in {hist.val} :
         hist' = CopyHist("w_copy_same", v, v, hist.n)
    /\ UNCHANGED <<pc, db, t, vfy, trusted, block_no, r, is, os, wo, srcdb>>

\* the caller writes a blob of its own to the destination
c_w_blob ==
    /\ pc = "copying"
    /\ hist.n < MaxCopies
    /\ \E b \in WBlobs :
         \E w \in {adb_w_blob(db, b)} :
            /\ db' = w.db
            /\ pc' = IF w.abort THEN "abort" ELSE pc
            /\ hist' = CopyHist("w_blob", ADB_NULL, w.val, hist.n + 1)
    /\ UNCHANGED <<t, vfy, trusted, block_no, r, is, os, wo, srcdb>>

NextCopy ==
    \/ c_w_copy
    \/ c_w_copy_same
    \/ c_w_blob

SpecCopy == InitCopy /\ [][NextCopy]_vars

----------------------------------------------------------------------------
(* Input and output streams as adb_c_xfrm uses them.  An input stream is     *)
(* [file, buf, buf_size, chunks, ioerr, err, blocks]: file is what the       *)
(* underlying descriptor has not yet delivered, buf the bytes between ptr    *)
(* and end, chunks the lengths its next reads deliver at most (the last one  *)
(* repeats), ioerr whether a read at the end fails instead of returning 0,   *)
(* blocks the blocks the file was made of.                                   *)

Min(a, b) == IF a < b THEN a ELSE b

\* struct adb_block as it lies in memory: the type is the two top bits of the
\* little-endian word
blk_bytes(blk) ==
    le_bytes(blk.raw % 16777216, 3) \o <<blk.type * 64 + blk.raw \div 16777216>>
blk_of_bytes(bs) ==
    [type |-> bs[4] \div 64, raw |-> le_value(SubSeq(bs, 1, 3)) + 16777216 * (bs[4] % 64)]

\* is->ops->read(is, ptr, n) of a descriptor-backed stream: [is, r, data]
ops_read(s, n) ==
    LET k == Min(Min(n, Head(s.chunks)), Len(s.file))
    IN IF s.file = <<>>
       THEN [is |-> s, r |-> IF s.ioerr THEN -EIO ELSE 0, data |-> <<>>]
       ELSE [is |-> [s EXCEPT !.file = SubSeq(@, k + 1, Len(@)),
                              !.chunks = IF Len(@) > 1 THEN Tail(@) ELSE @],
             r |-> k, data |-> SubSeq(s.file, 1, k)]

\* the loop of apk_istream_read: [is, left, r, data]
RECURSIVE istream_read_loop(_, _, _, _, _)
istream_read_loop(s, ptr, left, got, rr) ==
    IF left = 0 THEN [is |-> s, left |-> left, r |-> rr, data |-> got]
    ELSE IF s.buf # <<>>
    THEN LET n == Min(left, Len(s.buf))
         IN istream_read_loop([s EXCEPT !.buf = SubSeq(@, n + 1, Len(@))], ptr, left - n,
                              got \o SubSeq(s.buf, 1, n), n)
    ELSE IF s.err # 0 THEN [is |-> s, left |-> left, r |-> rr, data |-> got]
    ELSE IF ptr /\ left > s.buf_size \div 4
    THEN LET rd == ops_read(s, left)
         IN IF rd.r <= 0 THEN [is |-> rd.is, left |-> left, r |-> rd.r, data |-> got]
            ELSE istream_read_loop(rd.is, ptr, left - rd.r, got \o rd.data, rd.r)
    ELSE LET rd == ops_read(s, s.buf_size)
         IN IF rd.r <= 0 THEN [is |-> rd.is, left |-> left, r |-> rd.r, data |-> got]
            ELSE istream_read_loop([rd.is EXCEPT !.buf = rd.data], ptr, left, got, rd.r)

\* apk_istream_read(is, ptr, size); ptr says whether the bytes are wanted:
\* [is, r, data]
apk_istream_read(s, ptr, size) ==
    LET l == istream_read_loop(s, ptr, size, <<>>, 0)
        s1 == IF size # 0 /\ l.left = size /\ l.is.err = 0 THEN [l.is EXCEPT !.err = 1]
              ELSE l.is
    IN IF l.r < 0 THEN [is |-> l.is, r |-> l.r, data |-> l.data]
       ELSE IF size = l.left
       THEN [is |-> s1, r |-> IF s1.err < 0 THEN s1.err ELSE 0, data |-> l.data]
       ELSE [is |-> s1, r |-> size - l.left, data |-> l.data]

\* __apk_istream_fill: [is, r]
apk_istream_fill(s) ==
    LET rd == ops_read(s, s.buf_size - Len(s.buf))
    IN IF s.err # 0 THEN [is |-> s, r |-> s.err]
       ELSE IF rd.r <= 0
       THEN [is |-> [rd.is EXCEPT !.err = IF rd.r # 0 THEN rd.r ELSE 1],
             r |-> IF rd.r # 0 THEN rd.r ELSE 1]
       ELSE [is |-> [rd.is EXCEPT !.buf = @ \o rd.data], r |-> 0]

\* apk_istream_get_max: [is, null, len, data]
apk_istream_get_max(s, max) ==
    LET s1 == IF s.buf = <<>> THEN apk_istream_fill(s).is ELSE s
        n == Min(Len(s1.buf), max)
    IN IF s1.buf # <<>>
       THEN [is |-> [s1 EXCEPT !.buf = <<>>], null |-> FALSE, len |-> n,
             data |-> SubSeq(s1.buf, 1, n)]
       ELSE [is |-> s1, null |-> TRUE, len |-> IF s1.err < 0 THEN s1.err ELSE 0,
             data |-> <<>>]

\* apk_ostream_write to an output with room for os.room bytes: [os, r]
apk_ostream_write(o, bytes) ==
    IF o.rc < 0 THEN [os |-> o, r |-> o.rc]
    ELSE IF Len(o.out) + Len(bytes) > o.room
    THEN [os |-> [o EXCEPT !.rc = -EIO], r |-> -EIO]
    ELSE [os |-> [o EXCEPT !.out = @ \o bytes], r |-> Len(bytes)]

\* apk_stream_copy(is, os, size, 0, 0, 0) for a size other than APK_IO_ALL:
\* [is, os, r]
RECURSIVE stream_copy_loop(_, _, _, _)
stream_copy_loop(s, o, size, done) ==
    IF done >= size THEN [is |-> s, os |-> o, r |-> done]
    ELSE LET d == apk_istream_get_max(s, size - done)
             w == apk_ostream_write(o, d.data)
         IN IF d.null
            THEN [is |-> d.is, os |-> o, r |-> IF d.len # 0 THEN d.len ELSE -EBADMSG]
            ELSE IF w.r < 0 THEN [is |-> d.is, os |-> w.os, r |-> w.r]
            ELSE stream_copy_loop(d.is, w.os, size, done + d.len)

apk_stream_copy(s, o, size) == stream_copy_loop(s, o, size, 0)

\* apk_istream_segment(sis, is, len, 0): [is, seg], seg being [buf, bytes_left]
apk_istream_segment(s, len) ==
    IF Len(s.buf) > len
    THEN [is |-> [s EXCEPT !.buf = SubSeq(@, len + 1, Len(@))],
          seg |-> [buf |-> SubSeq(s.buf, 1, len), bytes_left |-> 0]]
    ELSE [is |-> [s EXCEPT !.buf = <<>>],
          seg |-> [buf |-> s.buf, bytes_left |-> len - Len(s.buf)]]

\* a callback that reads its segment to the end: segment_read until nothing
\* is left or the parent's read fails: [is, seg]
RECURSIVE segment_drain(_, _)
segment_drain(s, seg) ==
    IF seg.bytes_left = 0 THEN [is |-> s, seg |-> [seg EXCEPT !.buf = <<>>]]
    ELSE LET rd == ops_read(s, seg.bytes_left)
         IN IF rd.r <= 0 THEN [is |-> rd.is, seg |-> seg]
            ELSE segment_drain(rd.is, [seg EXCEPT !.bytes_left = @ - rd.r])

\* the err: exit of adb_c_xfrm: [is, os, r, pc, ev]
xfrm_err(s, o, rr, ev) ==
    LET e == IF rr >= 0 THEN -EBADMSG ELSE rr
    IN [is |-> s, os |-> apk_ostream_cancel(o, e), r |-> e, pc |-> "done", ev |-> ev]

\* The rounds of the loop of adb_c_xfrm, statement by statement; each step
\* gets what the earlier ones produced and yields [is, os, r, pc, ev].

\* the rest of the segment has been read past: r != seg.bytes_left is an error
xfrm_skipped(o, left, sk) ==
    IF sk.r # left THEN xfrm_err(sk.is, o, sk.r, "skip")
    ELSE [is |-> sk.is, os |-> o, r |-> sk.r, pc |-> "blocks", ev |-> "skipped"]

\* the payload has been copied by apk_stream_copy
xfrm_copied(cp) ==
    IF cp.r < 0 THEN xfrm_err(cp.is, cp.os, cp.r, "copy")
    ELSE [is |-> cp.is, os |-> cp.os, r |-> cp.r, pc |-> "blocks", ev |-> "copied"]

\* adb_c_block_copy after its block header has been written with result w
xfrm_copy(used, sz, w) ==
    IF w.r < 0 THEN xfrm_err(used.is, w.os, w.r, "write")
    ELSE xfrm_copied(apk_stream_copy(used.is, w.os, sz))

\* after the callback returned cb.r and left the segment as used.seg
xfrm_after_cb(rd, sz, used, o, cb) ==
    IF cb.r < 0 THEN xfrm_err(used.is, o, cb.r, "cb")
    ELSE IF cb.r = 0 /\ used.seg.bytes_left = sz
    THEN xfrm_copy(used, sz, apk_ostream_write(o, rd.data))
    ELSE IF used.seg.bytes_left > 0
    THEN xfrm_skipped(o, used.seg.bytes_left,
                      apk_istream_read(used.is, FALSE, used.seg.bytes_left))
    ELSE [is |-> used.is, os |-> o, r |-> cb.r, pc |-> "blocks", ev |-> "passed"]

\* the callback on the segment sg: it reads all of it if cb.all
xfrm_cb(sg, cb) == IF cb.all THEN segment_drain(sg.is, sg.seg) ELSE sg

\* the segment of sz payload bytes is opened and handed to the callback
xfrm_segment(rd, sz, o, cb) ==
    xfrm_after_cb(rd, sz, xfrm_cb(apk_istream_segment(rd.is, sz), cb), o, cb)

\* a whole block header blk has been read
xfrm_blk(rd, blk, o, no, cb) ==
    IF (no = 0) # (blk.type = ADB_BLOCK_ADB) THEN xfrm_err(rd.is, o, -EBADMSG, "order")
    ELSE xfrm_segment(rd, adb_block_size(blk.raw) - SIZEOF_ADB_BLOCK, o, cb)

\* after the read of the block header
xfrm_read(rd, o, no, cb, cb_end) ==
    IF rd.r # SIZEOF_ADB_BLOCK
    THEN IF rd.r # 0 THEN xfrm_err(rd.is, o, rd.r, "trunc")
         ELSE [is |-> rd.is, os |-> o, r |-> cb_end, pc |-> "done", ev |-> "end"]
    ELSE xfrm_blk(rd, blk_of_bytes(rd.data), o, no, cb)

\* one round of the loop of adb_c_xfrm with block_no = no, a callback that
\* returns cb.r for a block, reading the whole segment first if cb.all, and
\* returns cb_end at the end of the input: [is, os, r, pc, ev]
xfrm_iter(s, o, no, cb, cb_end) ==
    xfrm_read(apk_istream_read(s, TRUE, SIZEOF_ADB_BLOCK), o, no, cb, cb_end)

----------------------------------------------------------------------------
(* adb_c_xfrm run over an input file *)

\* blocks in an input file
MaxXfrmBlocks == 2
\* bytes of payload in a block
XfrmPayload == 2

\* block k of a file: header, payload, padding
XfrmBlock(type, k) ==
    LET blk == adb_block_init(type, XfrmPayload)
    IN blk_bytes(blk) \o [i \in 1..XfrmPayload |-> 10 * k + i]
         \o Zeroes(adb_block_padding(blk.raw))

RECURSIVE Flatten(_)
Flatten(ss) == IF ss = <<>> THEN <<>> ELSE Head(ss) \o Flatten(Tail(ss))

XfrmTypes ==
    UNION {[1..n -> {ADB_BLOCK_ADB, ADB_BLOCK_SIG, ADB_BLOCK_DATA}] : n \in 0..MaxXfrmBlocks}

\* the files: a header with a good or a bad magic, the blocks, and possibly
\* the end cut off
XfrmFiles ==
    {[blocks |-> [k \in DOMAIN ts |-> XfrmBlock(ts[k], k)],
      file |-> LET all == hdr_bytes([magic |-> m, schema |-> 1])
                            \o Flatten([k \in DOMAIN ts |-> XfrmBlock(ts[k], k)])
               IN SubSeq(all, 1, Len(all) - cut)] :
        ts \in XfrmTypes, m \in {ADB_FORMAT_MAGIC, 0},
        cut \in {0, 6, 30}}

\* what the callback does with a block
XfrmCb == {[r |-> 0, all |-> FALSE], [r |-> 1, all |-> FALSE],
           [r |-> -ENOTSUP, all |-> FALSE], [r |-> 0, all |-> TRUE]}

\* what the caller has seen: for each block handed to the callback what the
\* callback did and what became of the block (evs), and how the run ended
XHist(evs, end) == [evs |-> evs, end |-> end]

InitXfrm ==
    /\ pc = "start"
    /\ \E f \in XfrmFiles, buf_size \in {16, 128}, chunks \in {<<4>>, <<128>>, <<8, 4, 32>>},
          ioerr \in BOOLEAN :
         is = [file |-> f.file, buf |-> <<>>, buf_size |-> buf_size, chunks |-> chunks,
               ioerr |-> ioerr, err |-> 0, blocks |-> f.blocks]
    /\ \E room \in {4, 10, 20, 128} : os = [hdr |-> <<>>, out |-> <<>>, rc |-> 0, room |-> room]
    /\ db = ZeroDb
    /\ hist = XHist(<<>>, "none")
    /\ block_no = 0
    /\ r = 0
    /\ t = NullTrust
    /\ vfy = EmptyVfy
    /\ trusted = FALSE
    /\ wo = NoObj
    /\ srcdb = ZeroDb

\* adb_c_xfrm up to its loop: the header is read, checked and written
x_hdr ==
    /\ pc = "start"
    /\ \E rd \in {apk_istream_read(is, TRUE, SIZEOF_ADB_HEADER)} :
         \E w \in {apk_ostream_write(os, rd.data)} :
           \E x \in {IF rd.r # SIZEOF_ADB_HEADER THEN xfrm_err(rd.is, os, rd.r, "hdr")
                     ELSE IF hdr_of_bytes(rd.data).magic # ADB_FORMAT_MAGIC
                     THEN xfrm_err(rd.is, os, -EBADMSG, "magic")
                     ELSE IF w.r < 0 THEN xfrm_err(rd.is, w.os, w.r, "write")
                     ELSE [is |-> rd.is, os |-> w.os, r |-> w.r, pc |-> "blocks", ev |-> "hdr"]} :
              /\ is' = x.is
              /\ os' = x.os
              /\ r' = x.r
              /\ pc' = x.pc
              /\ db' = [db EXCEPT !.hdr = hdr_of_bytes(rd.data \o Zeroes(SIZEOF_ADB_HEADER - Len(rd.data)))]
              /\ hist' = [hist EXCEPT !.end = IF x.pc = "done" THEN x.ev ELSE @]
    /\ UNCHANGED <<t, vfy, trusted, block_no, wo, srcdb>>

\* one round of the loop in which a block header is read
x_block ==
    /\ pc = "blocks"
    /\ apk_istream_read(is, TRUE, SIZEOF_ADB_BLOCK).r = SIZEOF_ADB_BLOCK
    /\ \E cb \in XfrmCb :
         \E x \in {xfrm_iter(is, os, block_no, cb, 0)} :
            /\ is' = x.is
            /\ os' = x.os
            /\ r' = x.r
            /\ pc' = x.pc
            /\ hist' = IF x.ev = "order" THEN [hist EXCEPT !.end = x.ev]
                       ELSE [hist EXCEPT !.evs = Append(@, [r |-> cb.r, all |-> cb.all, ev |-> x.ev]),
                                         !.end = IF x.pc = "done" THEN x.ev ELSE @]
    /\ block_no' = block_no + 1
    /\ UNCHANGED <<db, t, vfy, trusted, wo, srcdb>>

\* the round in which no block header is left: the callback is told so, or
\* a part of a header ends the run
x_end ==
    /\ pc = "blocks"
    /\ apk_istream_read(is, TRUE, SIZEOF_ADB_BLOCK).r # SIZEOF_ADB_BLOCK
    /\ \E cb_end \in {0, -ENOTSUP} :
         \E x \in {xfrm_iter(is, os, block_no, [r |-> 0, all |-> FALSE], cb_end)} :
            /\ is' = x.is
            /\ os' = x.os
            /\ r' = x.r
            /\ pc' = x.pc
            /\ hist' = [hist EXCEPT !.end = x.ev]
    /\ UNCHANGED <<db, t, vfy, trusted, block_no, wo, srcdb>>

NextXfrm ==
    \/ x_hdr
    \/ x_block
    \/ x_end

SpecXfrm == InitXfrm /\ [][NextXfrm]_vars

----------------------------------------------------------------------------
(* adb_c_adb: a writable database emitted with the signatures of a trust    *)
(* store                                                                    *)

\* the arena is written up to this length before it is emitted
MaxEmitArena == 6

\* the writable databases a caller starts from: valid magic, or a magic a
\* writer error has cleared
EmitDbs ==
    {adb_w_init_dynamic(s, NumBuckets) : s \in 1..2}
        \cup {[adb_w_init_dynamic(1, NumBuckets) EXCEPT !.hdr.magic = 0]}

\* no trust store, or one with the given private keys
EmitTrusts == {NullTrust} \cup {Trust(<<>>, priv) : priv \in PrivLists}

InitEmit ==
    /\ pc = "writing"
    /\ db \in EmitDbs
    /\ t \in EmitTrusts
    /\ hist = [op |-> "init"]
    /\ vfy = EmptyVfy
    /\ trusted = FALSE
    /\ block_no = 0
    /\ r = 0
    /\ is = NoStream
    /\ os = NoOutput
    /\ wo = NoObj
    /\ srcdb = ZeroDb

\* the caller writes a blob
e_w_blob ==
    /\ pc = "writing"
    /\ \E b \in WBlobs :
         \E w \in {adb_w_blob(db, b)} :
            /\ w.db.adb.len <= MaxEmitArena
            /\ db' = w.db
    /\ hist' = [op |-> "w_blob"]
    /\ UNCHANGED <<pc, t, vfy, trusted, block_no, r, is, os, wo, srcdb>>

\* the caller empties the database
e_reset ==
    /\ pc = "writing"
    /\ hist.op = "w_blob"
    /\ db' = adb_reset(db)
    /\ hist' = [op |-> "reset"]
    /\ UNCHANGED <<pc, t, vfy, trusted, block_no, r, is, os, wo, srcdb>>

\* adb_c_adb(os, db, t) to a fresh output stream
e_c_adb ==
    /\ pc = "writing"
    /\ \E c \in {adb_c_adb(NoOutput, db, t)} :
         /\ os' = c.os
         /\ r' = c.r
    /\ pc' = "emitted"
    /\ hist' = [op |-> "c_adb"]
    /\ UNCHANGED <<db, t, vfy, trusted, block_no, is, wo, srcdb>>

NextEmit ==
    \/ e_w_blob
    \/ e_reset
    \/ e_c_adb

SpecEmit == InitEmit /\ [][NextEmit]_vars

----------------------------------------------------------------------------
(* adb_r_blob on the values a reader may meet in an arena it did not write  *)

\* arenas are up to this long
MaxReadArena == 4

\* the arenas read: all byte strings over 0..2 up to MaxReadArena bytes
RECURSIVE ByteStrings(_)
ByteStrings(n) ==
    IF n = 0 THEN {<<>>}
    ELSE ByteStrings(n - 1)
            \cup {Append(bs, b) : bs \in {x \in ByteStrings(n - 1) : Len(x) = n - 1}, b \in 0..2}

\* every tag with the offsets around the arena and the largest offset
ReadVals(d) ==
    {ADB_VAL(type, value) :
        type \in {ADB_TYPE_SPECIAL, ADB_TYPE_INT, ADB_TYPE_BLOB_8, ADB_TYPE_BLOB_16,
                  ADB_TYPE_BLOB_32, ADB_TYPE_ARRAY, ADB_TYPE_OBJECT},
        value \in 0..(d.adb.len + 1) \cup {268435455}}

\* the lengths a read through a null pointer may come back with
GarbageLens == {0, 1}

\* one case of adb_r_blob with its outcomes: [fault, blob, reads].  The
\* length prefix is read without a test of the pointer adb_r_deref gave;
\* through a null pointer the read either stops the process or yields some
\* length, with which the second adb_r_deref is made.
r_blob_outcomes(d, v, width) ==
    IF adb_r_deref(d, v, 0, width) # NULL
    THEN {[fault |-> FALSE, blob |-> r_blob_prefixed(d, v, width),
           reads |-> v.value..(v.value + width - 1)]}
    ELSE {[fault |-> TRUE, blob |-> Fault, reads |-> {NULL}]}
            \cup {[fault |-> FALSE, reads |-> {NULL},
                   blob |-> IF adb_r_deref(d, v, width, g) = NULL
                            THEN [ptr |-> FALSE, len |-> g, bytes |-> <<>>]
                            ELSE [ptr |-> TRUE, len |-> g,
                                  bytes |-> arena_bytes(d, adb_r_deref(d, v, width, g), g)]] :
                      g \in GarbageLens}

\* adb_r_blob with its outcomes
adb_r_blob_outcomes(d, v) ==
    IF v.type = ADB_TYPE_BLOB_8 THEN r_blob_outcomes(d, v, 1)
    ELSE IF v.type = ADB_TYPE_BLOB_16 THEN r_blob_outcomes(d, v, 2)
    ELSE IF v.type = ADB_TYPE_BLOB_32 THEN r_blob_outcomes(d, v, 4)
    ELSE {[fault |-> FALSE, blob |-> APK_BLOB_NULL, reads |-> {}]}

ReadHist(v, out) == [v |-> v, out |-> out]

\* arenas that hold a vector of two slots, and a length slot of 2^30
VecArenas == {<<2, 0, 0, 0, 7, 0, 0, 16>>, <<0, 0, 0, 64>>}

\* the words a read past the end of the arena may come back with
StrayWords == {ADB_VAL(0, 0), ADB_VAL(0, 1), ADB_VAL(0, 3)}

\* offs + sizeof(adb_val_t[num]) <= db->adb.len as adb_r_deref computes it,
\* w being the length word (num = w.type * 2^28 + w.value) and build the
\* size of size_t.  With 8 bytes nothing wraps; with 4 bytes the size is
\* 4 * (num mod 2^30) and its sum with offs is taken modulo 2^32.
vec_fits(offs, w, len, build) ==
    IF build = 8 THEN w.type = 0 /\ offs + 4 * w.value <= len
    ELSE IF w.type % 4 = 0 THEN offs + 4 * w.value <= len
    ELSE IF 1073741824 - ((w.type % 4) * 268435456 + w.value) <= 67108864
    THEN /\ offs >= 4 * (1073741824 - ((w.type % 4) * 268435456 + w.value))
         /\ offs - 4 * (1073741824 - ((w.type % 4) * 268435456 + w.value)) <= len
    ELSE FALSE

\* the view adb_r_obj leaves at err:
ErrView == [schema |-> NoSchema, num |-> 1, obj |-> NULL]

\* adb_r_obj after the length word w has been read: [fault, reads, view]
r_obj_num(d, v, w, build, reads) ==
    IF vec_fits(v.value, w, d.adb.len, build)
    THEN [fault |-> FALSE, reads |-> reads,
          view |-> [schema |-> NoSchema, num |-> word_value(w), obj |-> v.value]]
    ELSE [fault |-> FALSE, reads |-> reads, view |-> ErrView]

\* adb_r_obj with its outcomes.  The first adb_r_deref asks for
\* sizeof(adb_val_t[ADBI_NUM_ENTRIES]) = 0 bytes, so the read of the length
\* word that follows may leave the arena: the process stops, or some word
\* comes back.
adb_r_obj_outcomes(d, v, build) ==
    IF v.type # ADB_TYPE_ARRAY /\ v.type # ADB_TYPE_OBJECT
    THEN {[fault |-> FALSE, reads |-> {}, view |-> ErrView]}
    ELSE IF adb_r_deref(d, v, 0, 4 * ADBI_NUM_ENTRIES) = NULL
    THEN {[fault |-> FALSE, reads |-> {}, view |-> ErrView]}
    ELSE IF v.value + 4 <= d.adb.len
    THEN {r_obj_num(d, v, arena_word(d, v.value), build, v.value..(v.value + 3))}
    ELSE {[fault |-> TRUE, reads |-> v.value..(v.value + 3), view |-> ErrView]}
            \cup {r_obj_num(d, v, w, build, v.value..(v.value + 3)) : w \in StrayWords}

\* adb_ro_val(view, i) with its outcomes: [fault, val, reads]
adb_ro_val_outcomes(d, view, i) ==
    IF i >= view.num THEN {[fault |-> FALSE, val |-> ADB_NULL, reads |-> {}]}
    ELSE IF view.obj = NULL
    THEN {[fault |-> TRUE, val |-> ADB_NULL, reads |-> {NULL}]}
            \cup {[fault |-> FALSE, val |-> w, reads |-> {NULL}] : w \in StrayWords}
    ELSE IF view.obj + 4 * i + 4 <= d.adb.len
    THEN {[fault |-> FALSE, val |-> adb_ro_val(d, view, i),
           reads |-> (view.obj + 4 * i)..(view.obj + 4 * i + 3)]}
    ELSE {[fault |-> TRUE, val |-> ADB_NULL,
           reads |-> (view.obj + 4 * i)..(view.obj + 4 * i + 3)]}
            \cup {[fault |-> FALSE, val |-> w,
                   reads |-> (view.obj + 4 * i)..(view.obj + 4 * i + 3)] : w \in StrayWords}

InitRead ==
    /\ pc = "reading"
    /\ \E a \in ByteStrings(MaxReadArena) \cup VecArenas :
         db = [ZeroDb EXCEPT !.adb = APK_BLOB_PTR_LEN(a)]
    /\ hist = ReadHist(ADB_NULL, [fault |-> FALSE, blob |-> APK_BLOB_NULL, reads |-> {}])
    /\ t = NullTrust
    /\ vfy = EmptyVfy
    /\ trusted = FALSE
    /\ block_no = 0
    /\ r = 0
    /\ is = NoStream
    /\ os = NoOutput
    /\ wo = NoObj
    /\ srcdb = ZeroDb

\* adb_r_blob(db, v)
rd_blob ==
    /\ pc = "reading"
    /\ \E v \in ReadVals(db) :
         \E out \in adb_r_blob_outcomes(db, v) :
            /\ hist' = ReadHist(v, out)
            /\ pc' = IF out.fault THEN "fault" ELSE "read"
    /\ UNCHANGED <<db, t, vfy, trusted, block_no, r, is, os, wo, srcdb>>

\* adb_r_obj(db, v, obj, schema), then adb_ro_val(obj, i)
rd_obj ==
    /\ pc = "reading"
    /\ \E v \in ReadVals(db), build \in SIZEOF_POINTER, i \in 0..3 :
         \E o \in adb_r_obj_outcomes(db, v, build) :
            \E g \in (IF o.fault THEN {[fault |-> TRUE, val |-> ADB_NULL, reads |-> {}]}
                       ELSE adb_ro_val_outcomes(db, o.view, i)) :
               /\ hist' = [v |-> v, build |-> build, obj |-> o, i |-> i, got |-> g]
               /\ pc' = IF o.fault \/ g.fault THEN "vfault" ELSE "view"
    /\ UNCHANGED <<db, t, vfy, trusted, block_no, r, is, os, wo, srcdb>>

NextRead ==
    \/ rd_blob
    \/ rd_obj

SpecRead == InitRead /\ [][NextRead]_vars

----------------------------------------------------------------------------
(* adb_m_stream over the bytes of an input stream, called without a trust   *)
(* store: block headers are decoded from the bytes read, the payload size   *)
(* is computed in size_t, and datacb reads from the segment it is handed.   *)

ENOBUFS == 105
ECONNABORTED == 103

\* size_t arithmetic is modulo SIZE_MAX + 1.  The model's integers end at
\* 2^31 - 1, so size_t is given 30 bits here: a wrapped size is still larger
\* than every stream and every buffer of the model.
SIZE_MAX1 == 1073741824
size_t(x) == x % SIZE_MAX1

\* apk_istream_get(is, len): [is, r, data], r < 0 standing for ERR_PTR(r)
RECURSIVE apk_istream_get(_, _)
apk_istream_get(s, len) ==
    IF Len(s.buf) >= len
    THEN [is |-> [s EXCEPT !.buf = SubSeq(@, len + 1, Len(@))], r |-> 0,
          data |-> SubSeq(s.buf, 1, len)]
    ELSE LET f == apk_istream_fill(s)
         IN IF f.r = 0 THEN apk_istream_get(f.is, len)
            ELSE [is |-> f.is, data |-> <<>>,
                  r |-> IF Len(f.is.buf) = f.is.buf_size THEN -ENOBUFS
                        ELSE IF f.is.err > 0 THEN -ENOMSG
                        ELSE -EIO]

\* segment_read(is, ptr, size): [is, seg, r, data]
segment_got(seg, rd) ==
    IF rd.r <= 0
    THEN [is |-> rd.is, seg |-> seg, r |-> IF rd.r = 0 THEN -ECONNABORTED ELSE rd.r,
          data |-> <<>>]
    ELSE [is |-> rd.is, seg |-> [seg EXCEPT !.bytes_left = @ - rd.r], r |-> rd.r,
          data |-> rd.data]

segment_read(s, seg, size) ==
    IF Min(size, seg.bytes_left) = 0 THEN [is |-> s, seg |-> seg, r |-> 0, data |-> <<>>]
    ELSE segment_got(seg, ops_read(s, Min(size, seg.bytes_left)))

\* the loop of apk_istream_read run on a segment stream with a non-null ptr:
\* the bytes the segment took over from its parent's buffer come first, then
\* segment_read fetches from the parent: [is, seg, left, r, data]
RECURSIVE seg_read_loop(_, _, _, _, _)
seg_read_loop(s, seg, left, got, rr) ==
    IF left = 0 THEN [is |-> s, seg |-> seg, left |-> left, r |-> rr, data |-> got]
    ELSE IF seg.buf # <<>>
    THEN seg_read_loop(s, [seg EXCEPT !.buf = SubSeq(@, Min(left, Len(@)) + 1, Len(@))],
                       left - Min(left, Len(seg.buf)),
                       got \o SubSeq(seg.buf, 1, Min(left, Len(seg.buf))),
                       Min(left, Len(seg.buf)))
    ELSE IF left > s.buf_size \div 4
    THEN LET rd == segment_read(s, seg, left)
         IN IF rd.r <= 0
            THEN [is |-> rd.is, seg |-> rd.seg, left |-> left, r |-> rd.r, data |-> got]
            ELSE seg_read_loop(rd.is, rd.seg, left - rd.r, got \o rd.data, rd.r)
    ELSE LET rd == segment_read(s, seg, s.buf_size)
         IN IF rd.r <= 0
            THEN [is |-> rd.is, seg |-> rd.seg, left |-> left, r |-> rd.r, data |-> got]
            ELSE seg_read_loop(rd.is, [rd.seg EXCEPT !.buf = rd.data], left, got, rd.r)

\* datacb: it reads cb.k bytes from its segment sg and returns cb.r
seg_cb(sg, cb) == seg_read_loop(sg.is, sg.seg, cb.k, <<>>, 0)

\* one entry of hist per block header read: the type and declared size, the
\* payload size sz the code derived, and for a DATA block handed to datacb
\* the length argument, the bytes the callback asked for and got; out says
\* what became of the block
MsEv(blk, sz, out) ==
    [type |-> blk.type, raw |-> blk.raw, sz |-> sz, length |-> 0, k |-> 0, got |-> <<>>,
     out |-> out]

\* the results of one round of the loop: [is, db, r, pc, ev]
ms_out(s, d, rr, to, ev) == [is |-> s, db |-> d, r |-> rr, pc |-> to, ev |-> ev]

\* labels bad_msg: and err:
ms_err(s, d, rr, ev) == ms_out(s, d, IF rr >= 0 THEN -EBADMSG ELSE rr, "done", ev)

\* db->adb after malloc(sz) returned ok and the read rd of the payload
ms_arena(d, blk, rd, ok) ==
    [d EXCEPT !.adb = [ptr |-> ok, len |-> size_t(adb_block_length(blk.raw)),
                       bytes |-> SubSeq(rd.data, 1,
                                        Min(size_t(adb_block_length(blk.raw)), Len(rd.data)))]]

\* case ADB_BLOCK_ADB after the read of the payload
ms_adb_read(rd, blk, sz, d, ok) ==
    IF rd.r # sz THEN ms_err(rd.is, ms_arena(d, blk, rd, ok), rd.r, MsEv(blk, sz, "short"))
    ELSE ms_out(rd.is, ms_arena(d, blk, rd, ok), rd.r, "blocks", MsEv(blk, sz, "adb"))

\* case ADB_BLOCK_SIG after apk_istream_get; trusted is 1, nothing is verified
ms_sig_got(g, blk, sz, d) ==
    IF g.r < 0 THEN ms_err(g.is, d, g.r, MsEv(blk, sz, "noget"))
    ELSE ms_out(g.is, d, SIZEOF_ADB_BLOCK, "blocks", MsEv(blk, sz, "sig"))

\* the event of a DATA block whose callback ran and left the segment as u
DataEv(blk, sz, cb, u, out) ==
    [MsEv(blk, sz, out) EXCEPT !.length = size_t(adb_block_length(blk.raw)),
                               !.k = cb.k, !.got = u.data]

\* a round that leaves what the callback did not read in the stream
ms_rest_kept(u, cb) == [is |-> u.is, r |-> cb.r, data |-> <<>>]

\* if (seg.bytes_left) r = apk_istream_read(is, NULL, seg.bytes_left)
ms_rest(u, cb) ==
    IF u.seg.bytes_left # 0 THEN apk_istream_read(u.is, FALSE, u.seg.bytes_left)
    ELSE [is |-> u.is, r |-> cb.r, data |-> <<>>]

\* after the rest of the segment has been read past
ms_skipped(sk, d, ev) ==
    IF sk.r < 0 THEN ms_err(sk.is, d, sk.r, [ev EXCEPT !.out = "skip"])
    ELSE ms_out(sk.is, d, sk.r, "blocks", ev)

\* case ADB_BLOCK_DATA after datacb returned
ms_after_cb(u, blk, sz, d, cb) ==
    IF cb.r < 0 THEN ms_err(u.is, d, cb.r, DataEv(blk, sz, cb, u, "cb"))
    ELSE ms_skipped(ms_rest(u, cb), d, DataEv(blk, sz, cb, u, "data"))

\* the switch over the block type, sz being the payload size; malloc gives
\* memory for every size below half the address space
ms_case(s, blk, sz, d, cb) ==
    IF blk.type = ADB_BLOCK_ADB
    THEN IF ~APK_BLOB_IS_NULL(d.adb) THEN ms_err(s, d, -EBADMSG, MsEv(blk, sz, "bad"))
         ELSE ms_adb_read(apk_istream_read(s, sz < SIZE_MAX1 \div 2, sz), blk, sz, d,
                          sz < SIZE_MAX1 \div 2)
    ELSE IF APK_BLOB_IS_NULL(d.adb) \/ blk.type = ADB_BLOCK_RESERVED
    THEN ms_err(s, d, -EBADMSG, MsEv(blk, sz, "bad"))
    ELSE IF blk.type = ADB_BLOCK_SIG THEN ms_sig_got(apk_istream_get(s, sz), blk, sz, d)
    ELSE ms_after_cb(seg_cb(apk_istream_segment(s, sz), cb), blk, sz, d, cb)

\* a whole block header blk has been read: the order test, then
\* sz = adb_block_size(&blk) - sizeof blk
ms_blk(s, blk, d, no, cb) ==
    IF (no = 0) # (blk.type = ADB_BLOCK_ADB)
    THEN ms_err(s, d, -EBADMSG, MsEv(blk, 0, "order"))
    ELSE ms_case(s, blk, size_t(adb_block_size(blk.raw) - SIZEOF_ADB_BLOCK), d, cb)

\* after the read of the block header (trusted is 1 without a trust store)
ms_read(rd, d, no, cb) ==
    IF rd.r = 0
    THEN ms_out(rd.is, d, IF ~d.adb.ptr THEN -ENOMSG ELSE 0, "done",
                MsEv([type |-> 0, raw |-> 0], 0, "end"))
    ELSE IF rd.r # SIZEOF_ADB_BLOCK
    THEN ms_err(rd.is, d, rd.r, MsEv([type |-> 0, raw |-> 0], 0, "trunc"))
    ELSE ms_blk(rd.is, blk_of_bytes(rd.data), d, no, cb)

\* one round of the loop of adb_m_stream with block_no = no
ms_iter(s, d, no, cb) == ms_read(apk_istream_read(s, TRUE, SIZEOF_ADB_BLOCK), d, no, cb)

\* blocks in an input stream
MaxSegBlocks == 3
\* bytes of payload in a whole block
SegPayload == 2

\* block k of a stream with the declared size raw: header, payload, padding
SegBlock(type, raw, k) ==
    blk_bytes([type |-> type, raw |-> raw])
        \o [i \in 1..(IF raw > SIZEOF_ADB_BLOCK THEN raw - SIZEOF_ADB_BLOCK ELSE 0) |-> 10 * k + i]
        \o Zeroes(IF raw = 0 THEN 0
                  ELSE adb_block_size(raw) - (IF raw > SIZEOF_ADB_BLOCK THEN raw ELSE SIZEOF_ADB_BLOCK))

\* the blocks a stream is made of: whole blocks of each type, a DATA block
\* without payload, and blocks whose declared size is below the block header
SegKinds ==
    {[type |-> ty, raw |-> SIZEOF_ADB_BLOCK + SegPayload] :
        ty \in {ADB_BLOCK_ADB, ADB_BLOCK_SIG, ADB_BLOCK_DATA}}
      \cup {[type |-> ADB_BLOCK_DATA, raw |-> w] : w \in {0, 3, SIZEOF_ADB_BLOCK}}
      \cup {[type |-> ADB_BLOCK_ADB, raw |-> 0]}

SegSeqs == UNION {[1..n -> SegKinds] : n \in 0..MaxSegBlocks}

\* the streams: the header, the blocks, and possibly the end cut off
SegFiles ==
    {[blocks |-> [k \in DOMAIN ks |-> SegBlock(ks[k].type, ks[k].raw, k)], cut |-> cut] :
        ks \in {q \in SegSeqs : q = <<>> \/ q[1].type = ADB_BLOCK_ADB}, cut \in {0, 30}}

\* what datacb does: it reads k bytes of its segment and returns r
SegCb == {[k |-> k, r |-> 0] : k \in {0, 1, SegPayload, SegPayload + 1, 28, 29}}
            \cup {[k |-> 0, r |-> -EIO]}

InitSeg ==
    /\ pc = "start"
    /\ \E f \in SegFiles, buf_size \in {16, 128}, chunks \in {<<128>>, <<8, 4, 32>>} :
         is = [file |-> SubSeq(hdr_bytes([magic |-> ADB_FORMAT_MAGIC, schema |-> 1])
                                  \o Flatten(f.blocks), 1,
                               SIZEOF_ADB_HEADER + Len(Flatten(f.blocks)) - f.cut),
               buf |-> <<>>, buf_size |-> buf_size, chunks |-> chunks,
               ioerr |-> FALSE, err |-> 0, blocks |-> f.blocks, cut |-> f.cut]
    /\ os = NoOutput
    /\ db = ZeroDb
    /\ hist = <<>>
    /\ block_no = 0
    /\ r = 0
    /\ t = NullTrust
    /\ vfy = EmptyVfy
    /\ trusted = TRUE
    /\ wo = NoObj
    /\ srcdb = ZeroDb

\* adb_m_stream up to its loop: the header is read and its magic checked
seg_hdr ==
    /\ pc = "start"
    /\ \E rd \in {apk_istream_read(is, TRUE, SIZEOF_ADB_HEADER)} :
         /\ is' = rd.is
         /\ IF rd.r # SIZEOF_ADB_HEADER
            THEN pc' = "done" /\ r' = (IF rd.r >= 0 THEN -EBADMSG ELSE rd.r) /\ UNCHANGED db
            ELSE /\ db' = [db EXCEPT !.hdr = hdr_of_bytes(rd.data)]
                 /\ pc' = "blocks"
                 /\ r' = rd.r
    /\ UNCHANGED <<t, vfy, trusted, block_no, os, hist, wo, srcdb>>

\* one round of the loop in which a block header is read
seg_block ==
    /\ pc = "blocks"
    /\ apk_istream_read(is, TRUE, SIZEOF_ADB_BLOCK).r = SIZEOF_ADB_BLOCK
    /\ \E cb \in SegCb :
         \E x \in {ms_iter(is, db, block_no, cb)} :
            /\ is' = x.is
            /\ db' = x.db
            /\ r' = x.r
            /\ pc' = x.pc
            /\ hist' = Append(hist, x.ev)
    /\ block_no' = block_no + 1
    /\ UNCHANGED <<t, vfy, trusted, os, wo, srcdb>>

\* the round in which no whole block header is left
seg_end ==
    /\ pc = "blocks"
    /\ apk_istream_read(is, TRUE, SIZEOF_ADB_BLOCK).r # SIZEOF_ADB_BLOCK
    /\ \E x \in {ms_iter(is, db, block_no, [k |-> 0, r |-> 0])} :
         /\ is' = x.is
         /\ db' = x.db
         /\ r' = x.r
         /\ pc' = x.pc
    /\ UNCHANGED <<t, vfy, trusted, block_no, os, hist, wo, srcdb>>

NextSeg ==
    \/ seg_hdr
    \/ seg_block
    \/ seg_end

SpecSeg == InitSeg /\ [][NextSeg]_vars

----------------------------------------------------------------------------
(* One container of header, ADB block and SIG blocks read by adb_m_stream    *)
(* and by adb_m_map with the same arguments.  `is` holds the container and   *)
(* the arguments, db the database of adb_m_stream, srcdb that of adb_m_map,  *)
(* hist the two results (1 while the call has not been made).                *)

\* SIG blocks in a container
MaxSigs == 2
\* the buffer size of a descriptor-backed input stream
apk_io_bufsize == 131072
\* the length of a signature record that does not fit into that buffer
LongSigLen == 131072

\* the SIG payloads of a container with the given header and arena: records
\* by trusted keys over it, a record over another arena, records by foreign
\* keys, a record cut short, and a long record by a foreign key
BothSigs(hdr, arena) ==
    {[sigb |-> b, len |-> SIZEOF_ADB_SIGN_V0 + SigLen] :
        b \in {SigOver(KeyA, hdr, arena), SigOver(KeyB, hdr, arena),
               SigOver(KeyA, hdr, arena \o <<1>>), SigOver(KeyC, hdr, arena),
               [SigOver(KeyA, hdr, arena) EXCEPT !.short = TRUE]}}
      \cup {[sigb |-> SigOver(KeyD, hdr, arena), len |-> LongSigLen]}

\* the containers with the arguments of the two calls
BothInputs ==
    {[hdr |-> h, arena |-> a, sigs |-> g, expected_schema |-> e, buf_size |-> apk_io_bufsize] :
        h \in {x \in Hdrs : x.magic = ADB_FORMAT_MAGIC}, a \in {<<>>, <<0>>},
        g \in UNION {[1..n -> BothSigs([magic |-> ADB_FORMAT_MAGIC, schema |-> 1], <<0>>)
                               \cup BothSigs([magic |-> ADB_FORMAT_MAGIC, schema |-> 2], <<>>)] :
                        n \in 0..MaxSigs},
        e \in 0..1}

\* the payload size adb_m_stream derives for a block of the given length
both_sz(len) == adb_block_size(SIZEOF_ADB_BLOCK + len) - SIZEOF_ADB_BLOCK

\* a stream end that does not look at trusted
both_stream_end_untested(d, tr) == IF ~d.adb.ptr THEN -ENOMSG ELSE 0

\* adb_m_stream at the end of the stream
both_stream_end(d, tr) ==
    IF ~tr THEN -ENOKEY
    ELSE IF ~d.adb.ptr THEN -ENOMSG
    ELSE 0

\* the rounds of adb_m_stream over the SIG blocks left: the record is
\* fetched with apk_istream_get, which fails when the padded payload does
\* not fit the buffer, and verified while untrusted
RECURSIVE both_stream_sigs(_, _, _, _, _, _)
both_stream_sigs(sigs, d, tr, v, store, buf_size) ==
    IF sigs = <<>> THEN both_stream_end(d, tr)
    ELSE IF both_sz(Head(sigs).len) > buf_size THEN -ENOBUFS
    ELSE IF tr THEN both_stream_sigs(Tail(sigs), d, tr, v, store, buf_size)
    ELSE both_stream_sigs(Tail(sigs), d,
                          adb_trust_verify_signature(store, d, v, Head(sigs).sigb).r = 0,
                          adb_trust_verify_signature(store, d, v, Head(sigs).sigb).vfy,
                          store, buf_size)

\* the database of adb_m_stream after the header and the ADB block (malloc
\* gives memory)
both_stream_db(c) ==
    [ZeroDb EXCEPT !.hdr = c.hdr, !.adb = APK_BLOB_PTR_LEN(c.arena)]

\* the loop of __adb_m_parse over the SIG blocks left: trusted at its end
RECURSIVE both_parse_sigs(_, _, _, _, _)
both_parse_sigs(sigs, d, tr, v, store) ==
    IF sigs = <<>> THEN tr
    ELSE IF tr THEN both_parse_sigs(Tail(sigs), d, tr, v, store)
    ELSE both_parse_sigs(Tail(sigs), d,
                         adb_trust_verify_signature(store, d, v, Head(sigs).sigb).r = 0,
                         adb_trust_verify_signature(store, d, v, Head(sigs).sigb).vfy,
                         store)

\* the database of adb_m_map after the header tests and the ADB block
both_map_db(c) ==
    [ZeroDb EXCEPT !.hdr = c.hdr, !.adb = APK_BLOB_PTR_LEN(c.arena),
                   !.mmap = [ptr |-> TRUE, len |-> c.size, mapped |-> TRUE],
                   !.data = [ptr |-> TRUE, len |-> c.size - SIZEOF_ADB_HEADER, bytes |-> <<>>]]

\* the tail of __adb_m_parse and of adb_m_map: [db, r]
both_map_end(d, tr) ==
    IF ~tr THEN [db |-> adb_free([d EXCEPT !.adb = APK_BLOB_NULL]), r |-> -ENOKEY]
    ELSE IF d.adb.ptr THEN [db |-> d, r |-> 0]
    ELSE [db |-> adb_free([d EXCEPT !.adb = APK_BLOB_NULL]), r |-> -EBADMSG]

\* adb_m_map(db, fd, expected_schema, t): [db, r]
both_map(c, store) ==
    IF c.expected_schema # 0 /\ c.expected_schema # c.hdr.schema
    THEN [db |-> adb_free([ZeroDb EXCEPT !.mmap = [ptr |-> TRUE, len |-> c.size,
                                                  mapped |-> TRUE]]),
          r |-> -EBADMSG]
    ELSE both_map_end(both_map_db(c),
                      both_parse_sigs(c.sigs, both_map_db(c), store.null, EmptyVfy, store))

InitBoth ==
    /\ pc = "calls"
    /\ \E c \in BothInputs :
         is = [hdr |-> c.hdr, arena |-> c.arena, sigs |-> c.sigs,
               expected_schema |-> c.expected_schema, buf_size |-> c.buf_size,
               size |-> SIZEOF_ADB_HEADER + adb_block_size(SIZEOF_ADB_BLOCK + Len(c.arena))
                          + adb_block_size(SIZEOF_ADB_BLOCK + SIZEOF_ADB_SIGN_V0 + SigLen)
                              * Cardinality({i \in DOMAIN c.sigs : c.sigs[i].len # LongSigLen})
                          + adb_block_size(SIZEOF_ADB_BLOCK + LongSigLen)
                              * Cardinality({i \in DOMAIN c.sigs : c.sigs[i].len = LongSigLen})]
    /\ t \in {NullTrust, ReaderTrust}
    /\ db = ZeroDb
    /\ srcdb = ZeroDb
    /\ hist = [stream |-> 1, map |-> 1]
    /\ vfy = EmptyVfy
    /\ trusted = t.null
    /\ block_no = 0
    /\ r = 0
    /\ os = NoOutput
    /\ wo = NoObj

\* adb_m_stream(db, is, expected_schema, t, datacb) on the container
both_m_stream ==
    /\ pc = "calls"
    /\ hist.stream = 1
    /\ db' = both_stream_db(is)
    /\ \E rv \in {both_stream_sigs(is.sigs, both_stream_db(is), t.null, EmptyVfy, t,
                                   is.buf_size)} :
         /\ hist' = [hist EXCEPT !.stream = rv]
         /\ r' = rv
    /\ UNCHANGED <<pc, t, vfy, trusted, block_no, is, os, wo, srcdb>>

\* adb_m_map(srcdb, fd, expected_schema, t) on the same container
both_m_map ==
    /\ pc = "calls"
    /\ hist.map = 1
    /\ \E m \in {both_map(is, t)} :
         /\ srcdb' = m.db
         /\ hist' = [hist EXCEPT !.map = m.r]
         /\ r' = m.r
    /\ UNCHANGED <<pc, t, vfy, trusted, block_no, is, os, wo, db>>

NextBoth ==
    \/ both_m_stream
    \/ both_m_map

SpecBoth == InitBoth /\ [][NextBoth]_vars

----------------------------------------------------------------------------
(* Properties of adb_m_stream *)

\* some SIG block before block i of the stream verified
VerifiedBefore(i) ==
    \E j \in 1..(i - 1) : hist[j].type = ADB_BLOCK_SIG /\ hist[j].verified

\* C1 as stated: with a trust store, datacb runs for a DATA block only after
\* an earlier SIG block verified, and a DATA block read before any signature
\* has verified ends the parse with -ENOKEY, datacb not being invoked for it
\* or for any later block.
C1_DataBeforeTrustIsNoKey ==
    ~t.null =>
      \A i \in DOMAIN hist :
        hist[i].type = ADB_BLOCK_DATA =>
          /\ hist[i].cb => VerifiedBefore(i)
          /\ ~VerifiedBefore(i) =>
               /\ ~hist[i].cb
               /\ i = Len(hist) /\ pc = "done"
               /\ r = -ENOKEY

\* C1 amended: with a trust store, datacb runs for a DATA block only after an
\* earlier SIG block verified; a DATA block read before any signature has
\* verified ends the parse without invoking datacb for it or for any later
\* block, with -ENOKEY when it follows the ADB block whose arena is held and
\* with -EBADMSG when it is the first block or no arena is held.
C1_DataBeforeTrustFails ==
    ~t.null =>
      \A i \in DOMAIN hist :
        hist[i].type = ADB_BLOCK_DATA =>
          /\ hist[i].cb => VerifiedBefore(i)
          /\ ~VerifiedBefore(i) =>
               /\ ~hist[i].cb
               /\ i = Len(hist) /\ pc = "done"
               /\ r = IF i = 1 \/ APK_BLOB_IS_NULL(db.adb) THEN -EBADMSG ELSE -ENOKEY

\* a stream with a trust store whose ADB block and an unverifiable SIG block
\* are followed by a DATA block, refused with -ENOKEY
C1_Witness ==
    /\ ~t.null /\ pc = "done" /\ r = -ENOKEY
    /\ Len(hist) = 3
    /\ hist[2].type = ADB_BLOCK_SIG /\ hist[2].ok /\ ~hist[2].verified
    /\ hist[3].type = ADB_BLOCK_DATA /\ ~hist[3].cb

\* the stream's first block is not ADB, or a later block is
StreamOffends(b) ==
    /\ Len(b) >= 1
    /\ \/ b[1] # ADB_BLOCK_ADB
       \/ \E i \in 2..Len(b) : b[i] = ADB_BLOCK_ADB

\* the index of the first block that breaks the order
FirstOffender(b) ==
    IF b[1] # ADB_BLOCK_ADB THEN 1
    ELSE CHOOSE i \in 2..Len(b) :
           b[i] = ADB_BLOCK_ADB /\ \A j \in 2..(i - 1) : b[j] # ADB_BLOCK_ADB

\* C2 as stated: a stream is accepted only if its first block is ADB and no
\* later block is; every stream whose first block is not ADB, or that carries
\* a second ADB block, returns -EBADMSG (reads of the stream and the callback
\* not failing) and datacb is not invoked for the offending block.
C2_OffendingStreamIsMalformed ==
    /\ (pc = "done" /\ r = 0) => (Len(is.blocks) >= 1 /\ ~StreamOffends(is.blocks))
    /\ (pc = "done" /\ ~is.ioerr /\ is.hdrlen = SIZEOF_ADB_HEADER /\ StreamOffends(is.blocks)) =>
         /\ r = -EBADMSG
         /\ FirstOffender(is.blocks) \in DOMAIN hist => ~hist[FirstOffender(is.blocks)].cb

\* C2 amended: a stream is accepted only if its first block is ADB and no
\* later block is; a stream whose first block is SIG, DATA or reserved returns
\* -EBADMSG, and a second ADB block returns -EBADMSG when the parse reaches it
\* (an earlier block may already have ended the parse with another error), in
\* both cases without invoking datacb for the offending block.
C2_OffendingBlockIsMalformed ==
    /\ (pc = "done" /\ r = 0) => (Len(is.blocks) >= 1 /\ ~StreamOffends(is.blocks))
    /\ (pc = "done" /\ ~is.ioerr /\ is.hdrlen = SIZEOF_ADB_HEADER
          /\ Len(is.blocks) >= 1 /\ is.blocks[1] # ADB_BLOCK_ADB) => r = -EBADMSG
    /\ \A i \in DOMAIN hist :
         ((i = 1) # (hist[i].type = ADB_BLOCK_ADB)) =>
            /\ i = Len(hist) /\ pc = "done"
            /\ r = -EBADMSG
            /\ ~hist[i].cb

\* a second ADB block is reached after a DATA block was handed to datacb
C2_Witness ==
    /\ pc = "done" /\ r = -EBADMSG
    /\ Len(hist) >= 3
    /\ hist[Len(hist)].type = ADB_BLOCK_ADB
    /\ \E i \in 2..(Len(hist) - 1) : hist[i].type = ADB_BLOCK_DATA /\ hist[i].cb

\* ADB, then SIG blocks, then DATA blocks
StreamShape(b) ==
    /\ Len(b) >= 1
    /\ b[1] = ADB_BLOCK_ADB
    /\ \A i \in 2..Len(b) : b[i] \in {ADB_BLOCK_SIG, ADB_BLOCK_DATA}
    /\ \A i, j \in 2..Len(b) : (i < j /\ b[i] = ADB_BLOCK_DATA) => b[j] # ADB_BLOCK_SIG

\* C4: every block sequence adb_m_stream accepts has the shape ADB, SIG*,
\* DATA*: a SIG block after a DATA block is never accepted.
C4_AcceptedShape ==
    (pc = "done" /\ r = 0) => StreamShape(is.blocks)

\* C6 (stream mode): when adb_m_stream, given a trust store, returns non-zero,
\* the database's arena is null on return.
C6_NoArenaOnFailure ==
    (pc = "done" /\ ~t.null /\ r # 0) => APK_BLOB_IS_NULL(db.adb)

----------------------------------------------------------------------------
(* Properties of __adb_m_parse *)

HasAdb == \E i \in DOMAIN hist : hist[i].type = ADB_BLOCK_ADB
FirstAdb == CHOOSE i \in DOMAIN hist :
              hist[i].type = ADB_BLOCK_ADB /\ \A j \in 1..(i - 1) : hist[j].type # ADB_BLOCK_ADB

\* SIG block i lies after the first ADB block
SigAfterAdb(i) == hist[i].type = ADB_BLOCK_SIG /\ HasAdb /\ i > FirstAdb

\* C3: in map and blob mode a range whose first block is not ADB is rejected
\* with -EBADMSG and no arena is set, even if an ADB block appears later.
C3_FirstBlockMustBeAdb ==
    (pc = "done" /\ is.parsed /\ Len(hist) >= 1 /\ hist[1].type # ADB_BLOCK_ADB) =>
        (r = -EBADMSG /\ APK_BLOB_IS_NULL(db.adb))

\* C5: with a trust store __adb_m_parse returns 0 exactly when every block
\* passes framer validation, an ADB block is present and a SIG block after it
\* verifies; -ENOKEY when the framing is valid but no such signature
\* verifies; -EBADMSG when a block fails validation, whatever verified
\* before.  SIG blocks are tried in range order up to the first success.
C5_ParseResult ==
    (pc = "done" /\ is.parsed /\ ~t.null) =>
      LET good == \E i \in DOMAIN hist : SigAfterAdb(i) /\ hist[i].valid
      IN /\ (r = 0) <=> (~is.bad /\ HasAdb /\ good)
         /\ (~is.bad /\ ~good) => r = -ENOKEY
         /\ is.bad => r = -EBADMSG
         /\ \A i \in DOMAIN hist :
              /\ hist[i].tried <=>
                   (SigAfterAdb(i) /\ \A j \in 1..(i - 1) : ~(SigAfterAdb(j) /\ hist[j].valid))
              /\ hist[i].verified <=> (hist[i].tried /\ hist[i].valid)

\* a trusted range in which a failing signature precedes the verifying one,
\* followed by a further valid signature that is no longer tried
C5_Witness ==
    /\ pc = "done" /\ is.parsed /\ ~t.null /\ r = 0
    /\ Len(hist) = 4
    /\ hist[2].tried /\ ~hist[2].verified
    /\ hist[3].verified
    /\ hist[4].valid /\ ~hist[4].tried

----------------------------------------------------------------------------
(* Properties of the signature driver *)

RECURSIVE SelectKeys(_, _)
SelectKeys(keys, id) ==
    IF keys = <<>> THEN <<>>
    ELSE IF Head(keys).id = id THEN <<Head(keys)>> \o SelectKeys(Tail(keys), id)
    ELSE SelectKeys(Tail(keys), id)

\* the header and the arena are as they were signed
Unmodified == hdr_bytes(db.hdr) = hist.signed_hdr /\ db.adb.bytes = hist.signed_adb

\* the trust store holds the public half of the key that made record k
TrustsSignerOf(k) ==
    \E i \in DOMAIN t.trusted_key_list : t.trusted_key_list[i] = t.private_key_list[k]

\* C7: a record written by adb_trust_write_signatures with private key K
\* verifies (0) against the unmodified header and arena when the trust store
\* holds K's public key; trusted keys whose key id differs from the record's
\* are skipped and do not change the result.
C7_SignThenVerify ==
    (hist.k # 0 /\ Unmodified) =>
       /\ TrustsSignerOf(hist.k) => r = 0
       /\ r = adb_trust_verify_signature(
                 Trust(SelectKeys(t.trusted_key_list, os.out[hist.k].body.id), <<>>),
                 db, hist.v0, os.out[hist.k].body).r

\* the record of KeyA verified although KeyB, whose id differs, is tried first
C7_Witness ==
    /\ hist.k = 2 /\ Unmodified /\ r = 0
    /\ t.trusted_key_list = <<KeyB, KeyA>>
    /\ t.private_key_list = <<KeyB, KeyA>>

\* C8: when a byte of the header or of the ADB payload differs from what was
\* signed, verifying the record with an empty verify context gives
\* -EKEYREJECTED, at every position of the altered byte.
C8_TamperIsRejected ==
    (hist.k # 0 /\ hist.fresh /\ ~Unmodified) => r = -EKEYREJECTED

\* the last byte of the header was altered and the signer's key is trusted
C8_Witness ==
    /\ hist.k # 0 /\ hist.fresh /\ TrustsSignerOf(hist.k)
    /\ hdr_bytes(db.hdr)[SIZEOF_ADB_HEADER] # hist.signed_hdr[SIZEOF_ADB_HEADER]
    /\ r = -EKEYREJECTED

----------------------------------------------------------------------------
(* Properties of the writer *)

\* the interned writes before the last call that carried the same bytes with
\* the same alignment
EarlierCopies ==
    {e \in hist.prev : e.data = hist.data /\ e.alignment = hist.alignment}

\* C9: in a database with dedup buckets, writing through adb_w_data a byte
\* sequence already written through it with the same alignment returns the
\* offset of the earlier copy and leaves the arena length unchanged
C9_InterningReturnsEarlierCopy ==
    (pc = "writing" /\ hist.op = "data" /\ db.num_buckets # 0 /\ EarlierCopies # {})
        => /\ \E e \in EarlierCopies : hist.offs = e.offs
           /\ db.adb.len = hist.len_before

\* C10: after a sequence of writes ending with adb_w_root(db, v) the last four
\* bytes of the arena are v, they lie at a 4-byte-aligned offset, and
\* adb_r_root(db) returns v
C10_RootIsLastWord ==
    (pc = "writing" /\ hist.op = "root")
        => /\ db.adb.len >= 4
           /\ SubSeq(db.adb.bytes, db.adb.len - 3, db.adb.len) = val_bytes(hist.v)
           /\ (db.adb.len - 4) % 4 = 0
           /\ adb_r_root(db) = hist.v

\* a root written after writes that left the arena at an unaligned length
C10_Witness ==
    /\ pc = "writing"
    /\ hist.op = "root"
    /\ hist.len_before % 4 # 0
    /\ hist.v # ADB_NULL
    /\ adb_r_root(db) = hist.v

\* C11: adb_r_int of the value adb_w_int returned for v is v right after the
\* write, on every build; a v below 2^28 comes back inline and the arena is
\* left as it was
C11_IntRoundTrip ==
    (pc = "writing" /\ hist.call = "int")
        => /\ \A sz \in SIZEOF_POINTER : adb_r_int(db, hist.val, sz) = hist.arg
           /\ hist.arg < 268435456
                => hist.val = ADB_VAL(ADB_TYPE_INT, hist.arg) /\ db.adb.len = hist.len_before

\* the tag adb_w_blob is to give a blob of n > 0 bytes, and its prefix width
BlobTag(n) ==
    IF n <= 255 THEN ADB_TYPE_BLOB_8 ELSE IF n <= 65535 THEN ADB_TYPE_BLOB_16
    ELSE ADB_TYPE_BLOB_32
BlobWidth(n) == IF n <= 255 THEN 1 ELSE IF n <= 65535 THEN 2 ELSE 4

\* C12: adb_w_blob of b of n bytes returns NULL when n = 0, otherwise a value
\* tagged BLOB_8, BLOB_16 or BLOB_32 by the size of n, at an offset aligned to
\* the prefix width, and adb_r_blob of it gives the n bytes of b
C12_BlobRoundTrip ==
    (pc = "writing" /\ hist.call = "blob")
        => IF Len(hist.arg) = 0 THEN hist.val = ADB_NULL
           ELSE /\ hist.val.type = BlobTag(Len(hist.arg))
                /\ hist.val.value % BlobWidth(Len(hist.arg)) = 0
                /\ adb_r_blob(db, hist.val) = APK_BLOB_PTR_LEN(hist.arg)

\* a blob with a two-byte prefix written to an arena of odd length
C12_Witness ==
    /\ pc = "writing"
    /\ hist.call = "blob"
    /\ Len(hist.arg) = Blob16Len
    /\ hist.len_before % 2 = 1
    /\ hist.val.type = ADB_TYPE_BLOB_16
    /\ adb_r_blob(db, hist.val).bytes = hist.arg

----------------------------------------------------------------------------
(* Properties of the builders *)

\* the largest index below num whose slot is not NULL, 0 when there is none
LastSet(slots, num) ==
    LET set == {k \in 1..(num - 1) : slots[k] # ADB_NULL}
    IN IF set = {} THEN 0 ELSE CHOOSE k \in set : \A j \in set : j <= k

C14_LastIntReadsBack ==
    (pc = "writing" /\ hist.op = "w_obj" /\ wo.schema.get_default_int
        /\ hist.cints.i # 0)
        => \E sz \in SIZEOF_POINTER :
                  adb_ro_int(db, adb_r_obj(db, hist.val, wo.schema), hist.cints.i, sz)
                      = hist.cints.v

\* C15: once a writer call has returned an ERROR value the header magic is
\* invalid, and adb_c_adb cancels the output with a format error and writes
\* neither the header nor a block
C15_ErrorPoisonsMagic ==
    (pc \in {"writing", "emitted"} /\ hist.erred)
        => /\ db.hdr.magic # ADB_FORMAT_MAGIC
           /\ hist.op = "c_adb" => os.rc = -EAPKFORMAT /\ os.hdr = <<>> /\ os.out = <<>>

\* the order of the element schema: objects by their compare callback, ints
\* by value
elem_compare(schema, d, v1, v2) ==
    IF schema.fields[1] = "OBJECT" THEN wacmp(d, v1, d, v2, schema.elem)
    ELSE int_compare(d, v1, d, v2)

\* C16: after adb_wa_sort_unique every element of the array is smaller, under
\* the element schema's comparator, than the next one, whatever the element
\* kind, and num is 1 + the number of elements left, none being added
C16_SortUniqueStrict ==
    (pc = "sorted" /\ hist.op = "wa_sort_unique")
        => /\ wo.num \in 1..hist.before.num
           /\ \A k \in 1..(wo.num - 2) :
                elem_compare(wo.schema, db, wo.obj[k], wo.obj[k + 1]) < 0

\* the elements of the view are in the order of the element schema
ViewSorted(d, view) ==
    \A k \in 1..(view.num - 2) :
        wacmp(d, adb_ro_val(d, view, k), d, adb_ro_val(d, view, k + 1), view.schema.elem) <= 0

\* the indices of the view whose element compares equal to the needle
EqualAt(d, view, key) ==
    {k \in 1..(view.num - 1) : wacmp(d, key, d, adb_ro_val(d, view, k), view.schema.elem) = 0}

\* C17: on a sorted array adb_ra_find with cursor 0 returns the smallest
\* index whose element equals the needle, or -1; with cursor c > 0 it returns
\* c + 1 if element c + 1 exists and equals the needle, else -1; and it reads
\* no slot at an index >= n
C17_FindOnSorted ==
    (pc = "found" /\ ViewSorted(db, adb_r_obj(db, hist.val, wo.schema)))
        => LET view == adb_r_obj(db, hist.val, wo.schema)
               eq == EqualAt(db, view, hist.key)
           IN /\ hist.cur = 0 =>
                   hist.res = IF eq = {} THEN -1
                              ELSE CHOOSE k \in eq : \A j \in eq : k <= j
              /\ hist.cur > 0 =>
                   hist.res = IF hist.cur + 1 \in eq THEN hist.cur + 1 ELSE -1
              /\ \A k \in hist.reads : k < view.num

\* what a value reads to in database d: an integer, a blob, or the length slot
\* and the contents of the slots of an object or array
RECURSIVE Content(_, _)
Content(d, v) ==
    LET view == adb_r_obj(d, v, NoSchema)
        none == [tag |-> "special", int |-> 0, blob |-> APK_BLOB_NULL, slots |-> <<>>]
    IN IF v.type = ADB_TYPE_SPECIAL THEN [none EXCEPT !.int = v.value]
       ELSE IF v.type \in {ADB_TYPE_INT, ADB_TYPE_INT_32}
       THEN [none EXCEPT !.tag = "int", !.int = adb_r_int(d, v, 4)]
       ELSE IF v.type \in {ADB_TYPE_BLOB_8, ADB_TYPE_BLOB_16, ADB_TYPE_BLOB_32}
       THEN [none EXCEPT !.tag = "blob", !.blob = adb_r_blob(d, v)]
       ELSE IF v.type \in {ADB_TYPE_OBJECT, ADB_TYPE_ARRAY}
       THEN [none EXCEPT !.tag = "vector", !.int = view.num,
                         !.slots = [i \in 1..(view.num - 1) |->
                                       Content(d, adb_ro_val(d, view, i))]]
       ELSE [none EXCEPT !.tag = "error"]

\* values adb_w_copy supports: SPECIAL, INT, INT_32, BLOB_8, BLOB_16, and
\* objects and arrays made of them
RECURSIVE Copyable(_, _)
Copyable(d, v) ==
    \/ v.type \in {ADB_TYPE_SPECIAL, ADB_TYPE_INT, ADB_TYPE_INT_32,
                   ADB_TYPE_BLOB_8, ADB_TYPE_BLOB_16}
    \/ /\ v.type \in {ADB_TYPE_OBJECT, ADB_TYPE_ARRAY}
       /\ LET view == adb_r_obj(d, v, NoSchema)
          IN \A i \in 1..(view.num - 1) : Copyable(d, adb_ro_val(d, view, i))

\* C18: the value adb_w_copy returns for a supported value of the source
\* reads in the destination to what the value reads in the source: the same
\* integer, the same blob, an equal object
C18_CopyReadsSame ==
    (pc = "copying" /\ hist.op = "w_copy" /\ Copyable(srcdb, hist.v))
        => Content(db, hist.val) = Content(srcdb, hist.v)

\* what the framer owes the output after the blocks handed to the callback
\* so far: every block the callback returned 0 for without reading it
RECURSIVE XfrmOwed(_, _, _)
XfrmOwed(evs, blocks, i) ==
    IF i > Len(evs) THEN <<>>
    ELSE (IF evs[i].r = 0 /\ ~evs[i].all /\ i <= Len(blocks) THEN blocks[i] ELSE <<>>)
            \o XfrmOwed(evs, blocks, i + 1)

\* C19: for every block for which the callback returns 0 without reading the
\* segment, the output receives the block header and the padded payload as
\* they are in the input, in input order, however much of the input was
\* buffered when the block was reached
C19_VerbatimCopy ==
    (pc \in {"blocks", "done"} /\ os.rc = 0 /\ hist.end \notin {"hdr", "magic"})
        => os.out = hdr_bytes(db.hdr) \o XfrmOwed(hist.evs, is.blocks, 1)

\* C20: when adb_c_xfrm returns a negative value, for a callback's error on a
\* block or at the end of the input as for any other failure, the output
\* stream has been cancelled with that error
C20_ErrorCancelsOutput ==
    (pc = "done" /\ r < 0) => os.rc = r

----------------------------------------------------------------------------
(* adb_m_stream and its input stream *)

\* C21: adb_m_stream, called with a stream that is not an error pointer,
\* has closed the stream exactly once when it has returned, whatever the
\* result, and not at all before
C21_ClosedExactlyOnce == is.closed = (IF pc = "done" THEN 1 ELSE 0)

\* a return from a failed data callback with the stream closed once
C21_Witness ==
    /\ pc = "done"
    /\ r = -EIO
    /\ is.closed = 1
    /\ hist # <<>>
    /\ hist[Len(hist)].type = ADB_BLOCK_DATA
    /\ hist[Len(hist)].cb

\* C22: a call of adb_m_stream with a non-zero expected_schema on a
\* container whose header carries another schema fails, exposes no arena
\* and invokes no data callback
C22_StreamSchemaMismatchFails ==
    (/\ pc = "done"
     /\ db.hdr.magic = ADB_FORMAT_MAGIC
     /\ is.expected_schema # 0
     /\ db.hdr.schema # is.expected_schema)
        => /\ r < 0
           /\ APK_BLOB_IS_NULL(db.adb)
           /\ \A i \in DOMAIN hist : ~hist[i].cb

----------------------------------------------------------------------------
(* The interning append *)

\* C28: the offset adb_w_data returns for bytes of length len and alignment
\* a is a multiple of a, and the arena holds the bytes at [offs, offs + len),
\* whether the bytes were appended or an entry of the table was reused
C28_OffsetAlignedAndHoldsBytes ==
    (pc = "writing" /\ hist.op = "data")
        => /\ arena_bytes(db, hist.offs, Len(hist.data)) = hist.data
           /\ hist.offs % hist.alignment = 0

----------------------------------------------------------------------------
(* Emission *)

\* the payload length a block of os.out was written with
EmittedLen(blk) ==
    IF blk.type = ADB_BLOCK_ADB THEN blk.body.len ELSE SIZEOF_ADB_SIGN_V0 + SigLen

\* C27: adb_c_adb on a database with valid magic writes the header, one ADB
\* block that carries the arena, and then one SIG block per private key of
\* the trust store in the order of the key list (none without a trust
\* store); the size field of each block is header plus payload and the
\* block is padded with zeroes to a multiple of 32 bytes
C27_EmittedLayout ==
    (pc = "emitted" /\ db.hdr.magic = ADB_FORMAT_MAGIC)
        => /\ os.hdr = hdr_bytes(db.hdr)
           /\ Len(os.out) = 1 + Len(t.private_key_list)
           /\ os.out[1].type = ADB_BLOCK_ADB
           /\ os.out[1].body = db.adb
           /\ \A k \in 1..Len(t.private_key_list) :
                 /\ os.out[k + 1].type = ADB_BLOCK_SIG
                 /\ os.out[k + 1].body.id = t.private_key_list[k].id
           /\ \A i \in 1..Len(os.out) :
                 /\ os.out[i].raw = SIZEOF_ADB_BLOCK + EmittedLen(os.out[i])
                 /\ os.out[i].pad \in 0..(ADB_BLOCK_ALIGNMENT - 1)
                 /\ (os.out[i].raw + os.out[i].pad) % ADB_BLOCK_ALIGNMENT = 0

----------------------------------------------------------------------------
(* Reading blobs *)

\* the width of the length prefix of a blob tag, 0 for any other tag
PrefixWidth(type) ==
    IF type = ADB_TYPE_BLOB_8 THEN 1
    ELSE IF type = ADB_TYPE_BLOB_16 THEN 2
    ELSE IF type = ADB_TYPE_BLOB_32 THEN 4
    ELSE 0

\* the prefix of v and the data it announces lie wholly inside the arena
BlobInArena(d, v) ==
    /\ PrefixWidth(v.type) # 0
    /\ v.value + PrefixWidth(v.type) <= d.adb.len
    /\ v.value + PrefixWidth(v.type)
         + le_value(arena_bytes(d, v.value, PrefixWidth(v.type))) <= d.adb.len

\* C30: adb_r_blob of any value on any arena reads only bytes of the arena,
\* never goes through an out-of-range offset, and returns the null blob
\* unless the length prefix and the data lie wholly inside the arena
C30_BlobReadInBounds ==
    pc \in {"read", "fault"}
        => /\ ~hist.out.fault
           /\ hist.out.reads \subseteq 0..(db.adb.len - 1)
           /\ ~BlobInArena(db, hist.v) => APK_BLOB_IS_NULL(hist.out.blob)

----------------------------------------------------------------------------
(* Inputs without an ADB block *)

\* C26 (stream mode): an input shorter than the container header, and an
\* input with a valid header and no ADB block among its blocks (no blocks at
\* all included), make adb_m_stream return -EBADMSG, with or without a trust
\* store, when no read of the stream fails.
C26_NoAdbIsMalformed ==
    (/\ pc = "done"
     /\ ~is.ioerr
     /\ is.cut = "none"
     /\ \A i \in DOMAIN is.blocks : is.blocks[i] # ADB_BLOCK_ADB)
        => r = -EBADMSG

----------------------------------------------------------------------------
(* adb_m_stream over the bytes of its input *)

\* the offset behind block i of the stream, counted from the first block
RECURSIVE BlockEnd(_)
BlockEnd(i) == IF i = 0 THEN 0 ELSE BlockEnd(i - 1) + Len(is.blocks[i])

\* the bytes of the blocks the stream delivers (its end may be cut off)
SegBytes == SubSeq(Flatten(is.blocks), 1, Len(Flatten(is.blocks)) - is.cut)

\* block i lies in the stream with all its payload and padding
WholeBlock(i) == i \in DOMAIN is.blocks /\ BlockEnd(i) <= Len(SegBytes)

\* datacb ran for block i, a DATA block that is whole and has a declared size
\* of at least the block header
CbRan(i) ==
    /\ hist[i].type = ADB_BLOCK_DATA
    /\ hist[i].out \in {"data", "skip", "cb"}
    /\ hist[i].raw >= SIZEOF_ADB_BLOCK
    /\ WholeBlock(i)

\* C24: after datacb returned a non-negative result having read any number
\* of bytes of its segment, the stream stands right behind the padded
\* payload of the DATA block, and every block header the loop has read is
\* the header of the block at that place of the stream.
C24_NextHeaderAfterPaddedPayload ==
    /\ (pc = "blocks" /\ hist # <<>> /\ CbRan(Len(hist)))
          => is.buf \o is.file = SubSeq(SegBytes, BlockEnd(Len(hist)) + 1, Len(SegBytes))
    /\ \A i \in DOMAIN hist :
          /\ hist[i].type = blk_of_bytes(is.blocks[i]).type
          /\ hist[i].raw = blk_of_bytes(is.blocks[i]).raw

\* a callback read one byte of a 28-byte segment and the SIG block behind
\* the DATA block was then fetched
C24_Witness ==
    /\ Len(hist) = 3
    /\ CbRan(2)
    /\ hist[2].k = 1
    /\ hist[2].got = <<21>>
    /\ hist[3].type = ADB_BLOCK_SIG
    /\ hist[3].out = "sig"

\* C25: the segment handed to datacb delivers exactly `length` bytes, length
\* being the callback's second argument, and then reports its end: a
\* callback that asks for k bytes gets the first min(k, length) bytes of the
\* payload.
C25_SegmentHoldsLengthBytes ==
    \A i \in DOMAIN hist :
        CbRan(i) =>
            /\ hist[i].length = adb_block_length(hist[i].raw)
            /\ Len(hist[i].got) = Min(hist[i].k, hist[i].length)

\* C29: a block header whose declared size is below the size of the block
\* header ends the run with -EBADMSG before a payload size is derived from
\* it, and the payload size of every block is the padded block size less the
\* header size, without wrap-around.
C29_SmallSizeRejected ==
    \A i \in DOMAIN hist :
        /\ hist[i].raw < SIZEOF_ADB_BLOCK
              => /\ hist[i].out \in {"order", "bad"}
                 /\ i = Len(hist)
                 /\ pc = "done"
                 /\ r = -EBADMSG
        /\ hist[i].out # "order"
              => hist[i].sz = adb_block_size(hist[i].raw) - SIZEOF_ADB_BLOCK

----------------------------------------------------------------------------
(* Stream mode and map mode on one container *)

\* both calls have been made
BothDone == hist.stream # 1 /\ hist.map # 1

\* the two calls agree: same result, and on success the same arena
BothAgree ==
    /\ hist.stream = hist.map
    /\ hist.stream = 0
          => /\ db.adb.ptr /\ srcdb.adb.ptr
             /\ db.adb.len = srcdb.adb.len
             /\ db.adb.bytes = srcdb.adb.bytes

\* every SIG block's padded payload fits the buffer of the input stream
SigsFitBuffer == \A i \in DOMAIN is.sigs : both_sz(is.sigs[i].len) <= is.buf_size

----------------------------------------------------------------------------
(* Reading vectors *)

\* v is an OBJECT or ARRAY whose length slot and whole vector lie in the arena
VecInArena(d, v) ==
    /\ v.type \in {ADB_TYPE_ARRAY, ADB_TYPE_OBJECT}
    /\ v.value + 4 <= d.adb.len
    /\ arena_word(d, v.value).type = 0
    /\ arena_word(d, v.value).value <= (d.adb.len - v.value) \div 4

\* C31: adb_r_obj of any value on any arena reads inside the arena only and
\* yields the view of the stored vector (n the stored length slot, the whole
\* vector inside the arena) or, when the tag is not OBJECT/ARRAY or a part
\* is out of range, the degenerate view with n = 1; adb_ro_val(view, i) is
\* NULL for every i >= n, and on the degenerate view every read with i >= 1
\* is NULL without touching memory.
C31_ViewInArenaOrDegenerate ==
    pc \in {"view", "vfault"}
        => /\ ~hist.obj.fault
           /\ hist.obj.reads \subseteq 0..(db.adb.len - 1)
           /\ IF VecInArena(db, hist.v)
              THEN /\ hist.obj.view.obj = hist.v.value
                   /\ hist.obj.view.num = arena_word(db, hist.v.value).value
              ELSE hist.obj.view = ErrView
           /\ hist.i >= hist.obj.view.num
                 => hist.got = [fault |-> FALSE, val |-> ADB_NULL, reads |-> {}]
           /\ (hist.obj.view = ErrView /\ hist.i >= 1)
                 => hist.got = [fault |-> FALSE, val |-> ADB_NULL, reads |-> {}]

----------------------------------------------------------------------------
(* A caller writing the slots of an object builder by index, 0 included *)

\* the indices a caller passes: the length slot, the fields, one past them
IdxFields == 0..NumFields
IdxVals == {ADB_NULL, ADB_VAL(ADB_TYPE_INT, 7), ADB_ERROR(EINVAL)}
IdxInts == {7}
\* commits stay within this arena length
MaxIdxArena == 24

IdxHist(op, i, val) == [op |-> op, i |-> i, val |-> val]

InitIdx ==
    /\ pc = "filling"
    /\ db = adb_w_init_dynamic(1, NumBuckets)
    /\ wo = adb_wo_init(ObjSchema(FALSE))
    /\ hist = IdxHist("init", 0, ADB_NULL)
    /\ t = NullTrust
    /\ vfy = EmptyVfy
    /\ trusted = FALSE
    /\ block_no = 0
    /\ r = 0
    /\ is = NoStream
    /\ os = NoOutput
    /\ srcdb = ZeroDb

\* o->obj[i] = v lands outside the caller's vector of num_fields slots
idx_outside(w, i) == i < word_value(w.obj[ADBI_NUM_ENTRIES]) /\ i \notin DOMAIN w.obj

\* the state after a slot write that returned w = [db, wo, val, abort]
idx_called(w, op, i) ==
    /\ db' = w.db
    /\ wo' = w.wo
    /\ pc' = IF w.abort THEN "abort"
             ELSE IF ~ADB_IS_ERROR(w.val) /\ idx_outside(wo, i) THEN "fault"
             ELSE pc
    /\ hist' = IdxHist(op, i, w.val)
    /\ UNCHANGED <<t, vfy, trusted, block_no, r, is, os, srcdb>>

i_wo_val ==
    /\ pc = "filling"
    /\ \E i \in IdxFields, v \in IdxVals, ndebug \in BOOLEAN :
         \E w \in {adb_wo_val(wo, db, i, v, ndebug)} : idx_called(w, "wo_val", i)

i_wo_int ==
    /\ pc = "filling"
    /\ \E i \in IdxFields, v \in IdxInts, ndebug \in BOOLEAN :
         \E w \in {adb_wo_val(wo, adb_w_int(db, v).db, i, adb_w_int(db, v).val, ndebug)} :
            idx_called(w, "wo_int", i)

i_w_obj ==
    /\ pc = "filling"
    /\ \E w \in {adb_w_obj(wo, db)} :
          /\ w.db.adb.len <= MaxIdxArena
          /\ db' = w.db
          /\ wo' = w.wo
          /\ hist' = IdxHist("w_obj", 0, w.val)
    /\ UNCHANGED <<pc, t, vfy, trusted, block_no, r, is, os, srcdb>>

i_wo_reset ==
    /\ pc = "filling"
    /\ hist.op # "wo_reset"
    /\ wo' = adb_wo_reset(wo)
    /\ hist' = IdxHist("wo_reset", 0, ADB_NULL)
    /\ UNCHANGED <<pc, db, t, vfy, trusted, block_no, r, is, os, srcdb>>

NextIdx ==
    \/ i_wo_val
    \/ i_wo_int
    \/ i_w_obj
    \/ i_wo_reset

SpecIdx == InitIdx /\ [][NextIdx]_vars

----------------------------------------------------------------------------
(* adb_block_first / adb_block_next over a byte range *)

\* the ranges enumerated are 0..MaxFrameLen bytes long
MaxFrameLen == 72
\* the raw sizes the header under the cursor may declare
FrameRaws == {0, 3, 4, 5, 32, 33, 36, 64, 65, 1073741823}

\* the enumeration: the range length, the cursor, the cursor of the block
\* before (-1 at the first), the raw size under the cursor, the verdict
Frame(len, pos, prev, raw, res) ==
    [len |-> len, pos |-> pos, prev |-> prev, raw |-> raw, res |-> res]

InitFrame ==
    /\ pc = "first"
    /\ \E len \in 0..MaxFrameLen : is = Frame(len, 0, -1, 0, "none")
    /\ db = ZeroDb
    /\ t = NullTrust
    /\ vfy = EmptyVfy
    /\ trusted = FALSE
    /\ block_no = 0
    /\ r = 0
    /\ os = NoOutput
    /\ wo = NoObj
    /\ srcdb = ZeroDb
    /\ hist = <<>>

\* the enumeration stands at pos after the block at prev: the verdict on the
\* header there
frame_at(pos, prev) ==
    /\ \E raw \in FrameRaws :
         \E v \in {adb_block_validate(pos, is.len, raw)} :
            /\ is' = Frame(is.len, pos, prev, raw, v)
            /\ pc' = IF v = "blk" THEN "at" ELSE IF v = "end" THEN "ended" ELSE "failed"
    /\ UNCHANGED <<db, t, vfy, trusted, block_no, r, os, wo, srcdb, hist>>

\* adb_block_first(b)
f_block_first ==
    /\ pc = "first"
    /\ frame_at(0, -1)

\* adb_block_next(cur, b)
f_block_next ==
    /\ pc = "at"
    /\ frame_at(is.pos + adb_block_size(is.raw), is.pos)

NextFrame ==
    \/ f_block_first
    \/ f_block_next

SpecFrame == InitFrame /\ [][NextFrame]_vars

----------------------------------------------------------------------------
(* Verifying signature records of any version and hash algorithm *)

\* the hash_alg bytes a record may carry: SHA-512 and two others
AlgHashes == {APK_DIGEST_SHA512, "SHA256", "NONE"}
AlgVers == 0..1

\* the records handed to the verifier: made by a signer over the database,
\* then with the version and hash algorithm fields as the file has them
AlgRecords(hdr, arena) ==
    {[SigOver(k, hdr, arena) EXCEPT !.sign_ver = ver, !.hash_alg = alg] :
        k \in {KeyA, KeyC}, ver \in AlgVers, alg \in AlgHashes}

InitAlg ==
    /\ pc = "loaded"
    /\ \E h \in {x \in Hdrs : x.magic = ADB_FORMAT_MAGIC}, a \in SigArenas :
         db = [ZeroDb EXCEPT !.hdr = h, !.adb = APK_BLOB_PTR_LEN(a)]
    /\ \E pub \in TrustLists : t = Trust(pub, <<>>)
    /\ vfy = EmptyVfy
    /\ trusted = FALSE
    /\ block_no = 0
    /\ r = 0
    /\ is = NoStream
    /\ os = NoOutput
    /\ wo = NoObj
    /\ srcdb = ZeroDb
    /\ hist = <<>>

\* adb_trust_verify_signature(trust, db, vfy, sigb)
alg_verify ==
    /\ pc = "loaded"
    /\ \E sigb \in AlgRecords(db.hdr, db.adb.bytes) :
         \E v \in {adb_trust_verify_signature(t, db, vfy, sigb)} :
            /\ r' = v.r
            /\ vfy' = v.vfy
            /\ hist' = <<sigb>>
    /\ pc' = "verified"
    /\ UNCHANGED <<db, t, trusted, block_no, is, os, wo, srcdb>>

NextAlg == alg_verify

SpecAlg == InitAlg /\ [][NextAlg]_vars

----------------------------------------------------------------------------
(* A dynamic database written past its first 8192 bytes *)

\* a blob that, with its length prefix, fills the first 8192 bytes exactly
GrowLen == 8190
GrowBlob == [i \in 1..GrowLen |-> i % 251]
\* short values are written while the arena is at most this long
GrowAt == 5

GrowBlobs == {<<0>>, <<0, 1>>}
GrowInts == {7, 268435456, 268435459}
GrowRoots == {ADB_NULL, ADB_VAL(ADB_TYPE_BLOB_8, 0)}

GrowHist(op, val) == [op |-> op, val |-> val]

InitGrow ==
    /\ pc = "writing"
    /\ db = adb_w_init_dynamic(1, NumBuckets)
    /\ hist = GrowHist("init", ADB_NULL)
    /\ t = NullTrust
    /\ vfy = EmptyVfy
    /\ trusted = FALSE
    /\ block_no = 0
    /\ r = 0
    /\ is = NoStream
    /\ os = NoOutput
    /\ wo = NoObj
    /\ srcdb = ZeroDb

\* a short write is made before the long blob, and one after it
grow_short ==
    /\ \/ pc = "writing" /\ db.adb.len <= GrowAt
       \/ pc = "grown"
    /\ pc' = IF pc = "grown" THEN "after" ELSE pc
    /\ UNCHANGED <<t, vfy, trusted, block_no, r, is, os, wo, srcdb>>

g_blob ==
    /\ grow_short
    /\ \E b \in GrowBlobs :
         \E w \in {adb_w_blob(db, b)} :
            db' = w.db /\ hist' = GrowHist("blob", w.val)

g_int ==
    /\ grow_short
    /\ \E v \in GrowInts :
         \E w \in {adb_w_int(db, v)} :
            db' = w.db /\ hist' = GrowHist("int", w.val)

g_root ==
    /\ grow_short
    /\ \E v \in GrowRoots :
         \E w \in {adb_w_root(db, v)} :
            db' = w.db /\ hist' = GrowHist("root", v)

\* adb_w_blob of the long blob
g_grow ==
    /\ pc = "writing"
    /\ \E w \in {adb_w_blob(db, GrowBlob)} :
         db' = w.db /\ hist' = GrowHist("grow", w.val)
    /\ pc' = "grown"
    /\ UNCHANGED <<t, vfy, trusted, block_no, r, is, os, wo, srcdb>>

NextGrow ==
    \/ g_blob
    \/ g_int
    \/ g_root
    \/ g_grow

SpecGrow == InitGrow /\ [][NextGrow]_vars

----------------------------------------------------------------------------
(* adb_free and the storage a database points to *)

\* where db->adb.ptr came from: nowhere (NULL), malloc / realloc, the
\* caller's buffer or blob, or the mapped region
Origins == {"null", "heap", "caller", "map"}

\* the release calls of adb_free on a database whose adb.ptr is of the given
\* origin: munmap of the region, or free of each bucket and of adb.ptr
adb_free_calls(d, origin) ==
    IF d.mmap.ptr THEN {[call |-> "munmap", of |-> "map"]}
    ELSE {[call |-> "free", of |-> "bucket"] :
             k \in {b \in DOMAIN d.bucket : d.bucket[b] # <<>>}}
           \cup {[call |-> "free", of |-> origin]}

\* short values are written while the arena is at most this long
FreeAt == 4
\* the size of a mapped file
FreeMapLen == 40

\* a database after adb_m_blob whose blob holds the ADB block payload p
blob_parsed(p) ==
    [ZeroDb EXCEPT !.data = [ptr |-> TRUE, len |-> ADB_BLOCK_ALIGNMENT, bytes |-> <<>>],
                   !.adb = APK_BLOB_PTR_LEN(p)]

\* a database after adb_m_map of a file of FreeMapLen bytes
map_parsed(p) ==
    [ZeroDb EXCEPT !.hdr = [magic |-> ADB_FORMAT_MAGIC, schema |-> 1],
                   !.mmap = [ptr |-> TRUE, len |-> FreeMapLen, mapped |-> TRUE],
                   !.data = [ptr |-> TRUE, len |-> FreeMapLen - SIZEOF_ADB_HEADER,
                             bytes |-> <<>>],
                   !.adb = APK_BLOB_PTR_LEN(p)]

\* a database after adb_m_stream has read the ADB block payload p
stream_read(p) ==
    [ZeroDb EXCEPT !.hdr = [magic |-> ADB_FORMAT_MAGIC, schema |-> 1],
                   !.adb = APK_BLOB_PTR_LEN(p)]

\* how the database was made, the origin of adb.ptr, the calls of adb_free
FreeHist(made, origin, released) ==
    [made |-> made, origin |-> origin, released |-> released]

InitFree ==
    /\ pc = "open"
    /\ \/ db = adb_w_init_dynamic(1, NumBuckets) /\ hist = FreeHist("dynamic", "null", {})
       \/ /\ db \in {adb_w_init_static(StaticBufSize), adb_w_init_static(OddBufSize)}
          /\ hist = FreeHist("static", "caller", {})
       \/ \E p \in Payloads \ {<<>>} :
            \/ db = blob_parsed(p) /\ hist = FreeHist("blob", "caller", {})
            \/ db = map_parsed(p) /\ hist = FreeHist("map", "map", {})
            \/ db = stream_read(p) /\ hist = FreeHist("stream", "heap", {})
    /\ t = NullTrust
    /\ vfy = EmptyVfy
    /\ trusted = FALSE
    /\ block_no = 0
    /\ r = 0
    /\ is = NoStream
    /\ os = NoOutput
    /\ wo = NoObj
    /\ srcdb = ZeroDb

\* the state after a write that returned w: realloc hands adb.ptr a heap
\* buffer when the capacity changes
free_wrote(w) ==
    /\ db' = w.db
    /\ pc' = IF w.abort THEN "abort" ELSE pc
    /\ hist' = [hist EXCEPT !.origin = IF w.db.mmap.len # db.mmap.len THEN "heap" ELSE @]
    /\ UNCHANGED <<t, vfy, trusted, block_no, r, is, os, wo, srcdb>>

fr_blob ==
    /\ pc = "open"
    /\ hist.made \in {"dynamic", "static"}
    /\ db.adb.len <= FreeAt
    /\ \E b \in WBlobs : \E w \in {adb_w_blob(db, b)} : free_wrote(w)

fr_int ==
    /\ pc = "open"
    /\ hist.made \in {"dynamic", "static"}
    /\ db.adb.len <= FreeAt
    /\ \E v \in WInts : \E w \in {adb_w_int(db, v)} : free_wrote(w)

fr_free ==
    /\ pc = "open"
    /\ hist' = [hist EXCEPT !.released = adb_free_calls(db, hist.origin)]
    /\ db' = adb_free(db)
    /\ pc' = "freed"
    /\ UNCHANGED <<t, vfy, trusted, block_no, r, is, os, wo, srcdb>>

NextFree ==
    \/ fr_blob
    \/ fr_int
    \/ fr_free

SpecFree == InitFree /\ [][NextFree]_vars

----------------------------------------------------------------------------
(* The extract applet: DATA blocks against the manifest of the package *)

\* sizeof(struct adb_data_package): path_idx and file_idx
SIZEOF_ADB_DATA_PACKAGE == 8

\* a file of the manifest: its recorded size, whether it has a link target
ManifestFile(size, target) == [size |-> size, target |-> target]

\* the file arrays of a directory of the manifest
FileLists ==
    {<<>>,
     <<ManifestFile(1, FALSE)>>,
     <<ManifestFile(0, FALSE)>>,
     <<ManifestFile(1, TRUE)>>,
     <<ManifestFile(1, FALSE), ManifestFile(2, FALSE)>>,
     <<ManifestFile(0, FALSE), ManifestFile(2, FALSE)>>,
     <<ManifestFile(2, FALSE), ManifestFile(1, TRUE)>>}

\* the paths arrays: up to two directories
Manifests ==
    {<<>>} \cup {<<a>> : a \in FileLists} \cup {<<a, b>> : a, b \in FileLists}

\* a DATA block: the indices of its struct adb_data_package and its
\* adb_block_length
DataBlk(path_idx, file_idx, len) == [path_idx |-> path_idx, file_idx |-> file_idx, len |-> len]
DataBlks == {DataBlk(p, f, n) : p \in 1..2, f \in 1..2, n \in {4, 9, 10}}

\* DATA blocks a stream carries at most
MaxData == 3

\* adb_ra_num(&ctx->files) of the directory at cur_path
files_num(paths, cp) == IF cp \in 1..Len(paths) THEN Len(paths[cp]) ELSE 0

\* the loop of apk_extract_next_file from the test of cur_file on: [r,
\* cur_path, cur_file]; bad is what apk_extract_directory and
\* apk_extract_file(ctx, 0, 0) return
RECURSIVE extract_seek(_, _, _, _)
extract_seek(paths, cp, cf, bad) ==
    IF cf > files_num(paths, cp)
    THEN IF cp + 1 > Len(paths)
         THEN [r |-> 1, cur_path |-> cp + 1, cur_file |-> ADBI_FIRST]
         ELSE IF bad # 0
         THEN [r |-> bad, cur_path |-> cp + 1, cur_file |-> ADBI_FIRST]
         ELSE extract_seek(paths, cp + 1, ADBI_FIRST, bad)
    ELSE IF paths[cp][cf].size # 0 /\ ~paths[cp][cf].target
    THEN [r |-> 0, cur_path |-> cp, cur_file |-> cf]
    ELSE IF bad # 0 THEN [r |-> bad, cur_path |-> cp, cur_file |-> cf]
    ELSE extract_seek(paths, cp, cf + 1, bad)

\* apk_extract_next_file: the one-time init, then the loop
apk_extract_next_file(ctx, bad) ==
    IF ctx.cur_path = 0 THEN extract_seek(ctx.paths, ADBI_FIRST, 1, bad)
    ELSE extract_seek(ctx.paths, ctx.cur_path, ctx.cur_file + 1, bad)

\* a data callback that does not look at file_idx
data_block_any_file(ctx, n, blk, io) ==
    IF \/ blk.path_idx # n.cur_path
       \/ size_t(blk.len - SIZEOF_ADB_DATA_PACKAGE) # ctx.paths[n.cur_path][n.cur_file].size
    THEN -EAPKFORMAT
    ELSE io

\* the tests of apk_extract_data_block on the block header, n being what
\* apk_extract_next_file returned and io what apk_extract_file returns
data_block_checked(ctx, n, blk, io) ==
    IF \/ blk.path_idx # n.cur_path
       \/ blk.file_idx # n.cur_file
       \/ size_t(blk.len - SIZEOF_ADB_DATA_PACKAGE) # ctx.paths[n.cur_path][n.cur_file].size
    THEN -EAPKFORMAT
    ELSE io

\* apk_extract_data_block after apk_extract_next_file has returned n; get
\* is the error of apk_istream_get, 0 when it delivers the header
apk_extract_data_block(ctx, n, blk, get, io) ==
    IF n.r > 0 THEN -EAPKFORMAT
    ELSE IF n.r # 0 THEN n.r
    ELSE IF get # 0 THEN get
    ELSE data_block_checked(ctx, n, blk, io)

\* an extraction or a read failed during apk_extract_data_block
data_block_failed(ctx, n, blk, get, io) ==
    \/ n.r \notin {0, 1}
    \/ n.r = 0 /\ get # 0
    \/ n.r = 0 /\ get = 0 /\ io # 0 /\ data_block_checked(ctx, n, blk, 0) = 0

\* the tail of apk_extract_pkg after adb_m_stream has returned 0
extract_pkg_result(n) == IF n.r = 0 THEN -EAPKFORMAT ELSE IF n.r = 1 THEN 0 ELSE n.r

\* the applet's context: the paths of the package, the cursor, the DATA
\* blocks handed to the callback so far, whether an extraction or the
\* stream itself has failed
ExtractCtx(paths, cp, cf, blocks, failed) ==
    [paths |-> paths, cur_path |-> cp, cur_file |-> cf, blocks |-> blocks,
     failed |-> failed]

\* what the extraction of a directory or of a file without data may
\* return; a file without a digest gives -EAPKFORMAT
ExtractErrs == {0, -EIO, -EAPKFORMAT}

InitExtract ==
    /\ pc = "stream"
    /\ \E m \in Manifests : hist = ExtractCtx(m, 0, 0, <<>>, FALSE)
    /\ db = ZeroDb
    /\ t = NullTrust
    /\ vfy = EmptyVfy
    /\ trusted = FALSE
    /\ block_no = 0
    /\ r = 0
    /\ is = NoStream
    /\ os = NoOutput
    /\ wo = NoObj
    /\ srcdb = ZeroDb

\* adb_m_stream reads a DATA block and calls apk_extract_data_block; a
\* negative result ends the stream
x_data_block ==
    /\ pc = "stream"
    /\ Len(hist.blocks) < MaxData
    /\ \E blk \in DataBlks, bad \in ExtractErrs, get \in {0, -EIO},
          io \in ExtractErrs \cup {-EAPKDBFORMAT} :
         \E n \in {apk_extract_next_file(hist, bad)} :
            \E d \in {apk_extract_data_block(hist, n, blk, get, io)} :
               /\ hist' = ExtractCtx(hist.paths, n.cur_path, n.cur_file,
                                     Append(hist.blocks, blk),
                                     data_block_failed(hist, n, blk, get, io))
               /\ r' = d
               /\ pc' = IF d < 0 THEN "done" ELSE pc
    /\ UNCHANGED <<db, t, vfy, trusted, block_no, is, os, wo, srcdb>>

\* adb_m_stream returns 0 at the end of the stream: the last call of
\* apk_extract_next_file decides
x_stream_end ==
    /\ pc = "stream"
    /\ \E bad \in ExtractErrs :
         \E n \in {apk_extract_next_file(hist, bad)} :
            /\ r' = extract_pkg_result(n)
            /\ hist' = [hist EXCEPT !.cur_path = n.cur_path, !.cur_file = n.cur_file,
                                    !.failed = n.r \notin {0, 1}]
    /\ pc' = "done"
    /\ UNCHANGED <<db, t, vfy, trusted, block_no, is, os, wo, srcdb>>

\* adb_m_stream fails on its own
x_stream_err ==
    /\ pc = "stream"
    /\ r' = -EBADMSG
    /\ hist' = [hist EXCEPT !.failed = TRUE]
    /\ pc' = "done"
    /\ UNCHANGED <<db, t, vfy, trusted, block_no, is, os, wo, srcdb>>

NextExtract ==
    \/ x_data_block
    \/ x_stream_end
    \/ x_stream_err

SpecExtract == InitExtract /\ [][NextExtract]_vars

----------------------------------------------------------------------------
(* Builders after a commit *)

\* the builder is as adb_wo_init left it, with the capacity cap in slot 0
FreshBuilder(w, cap) ==
    /\ w.num = 1
    /\ w.obj[ADBI_NUM_ENTRIES] = cap
    /\ \A k \in DOMAIN w.obj : k >= 1 => w.obj[k] = ADB_NULL

\* C32: after adb_w_arr returns, whatever it returned, the builder is reset
\* in place: num = 1, every field slot NULL, and the length slot holds the
\* capacity it held before the commit.
C32_BuilderFreshAfterCommit ==
    (pc = "committed" /\ hist.op = "w_arr")
        => FreshBuilder(wo, hist.before.obj[ADBI_NUM_ENTRIES])

\* slot 0 holds the capacity cap, num is within it, no slot from num on is set
BuilderShape(w, cap) ==
    /\ w.obj[ADBI_NUM_ENTRIES] = word(cap)
    /\ 1 <= w.num /\ w.num <= cap
    /\ \A k \in DOMAIN w.obj : k >= w.num => w.obj[k] = ADB_NULL

\* C38: in every builder state reached by appends, adb_wa_sort_unique and
\* commits, slot 0 holds the capacity set by adb_wo_init, 1 <= num <=
\* capacity, and every slot at an index >= num is NULL.
C38_BuilderShapeKept ==
    pc \in {"filling", "writing", "building", "sorted", "committed", "found"}
        => BuilderShape(wo, wo.schema.num_fields)

\* the two parts of the shape that do not speak of the slots from num on
BuilderCountKept ==
    /\ wo.obj[ADBI_NUM_ENTRIES] = word(wo.schema.num_fields)
    /\ 1 <= wo.num /\ wo.num <= wo.schema.num_fields

\* the slots of the vector that v names in the arena of d
VecSlots(d, v) ==
    {arena_word(d, v.value + 4 * k) : k \in 1..(arena_word(d, v.value).value - 1)}

\* C33: while the header magic of the database is valid, the vector a commit
\* has stored in its arena has no slot holding an ERROR value, whatever
\* builder calls came before the commit.
C33_NoErrorSlotCommitted ==
    (pc = "writing" /\ hist.op = "w_obj" /\ hist.val.type = ADB_TYPE_OBJECT
        /\ db.hdr.magic = ADB_FORMAT_MAGIC)
        => \A s \in VecSlots(db, hist.val) : ~ADB_IS_ERROR(s)

----------------------------------------------------------------------------
(* Block enumeration *)

\* the header under the cursor cannot be a block of the range
FrameMalformed ==
    \/ is.len - is.pos < SIZEOF_ADB_BLOCK
    \/ is.raw < SIZEOF_ADB_BLOCK
    \/ ROUND_UP(is.raw, ADB_BLOCK_ALIGNMENT) > is.len - is.pos

\* C34: adb_block_first / adb_block_next return end-of-range exactly when
\* the cursor equals the range length; the malformed sentinel when fewer
\* than 4 bytes remain, the raw size is below 4 or the padded size exceeds
\* the remaining bytes; otherwise a block wholly inside the range at a
\* strictly greater offset than the block before.
C34_FramerVerdict ==
    pc \in {"at", "ended", "failed"}
        => /\ (is.res = "end") <=> (is.pos = is.len)
           /\ (is.pos # is.len /\ FrameMalformed) => is.res = "bad"
           /\ (is.pos # is.len /\ ~FrameMalformed)
                 => /\ is.res = "blk"
                    /\ is.pos + ROUND_UP(is.raw, ADB_BLOCK_ALIGNMENT) <= is.len
                    /\ is.pos > is.prev
           /\ is.pos <= is.len

\* a second block was yielded, and an enumeration failed behind a block
C34_Witness ==
    /\ pc = "failed"
    /\ is.prev > 0
    /\ is.len - is.pos >= SIZEOF_ADB_BLOCK
    /\ is.raw >= SIZEOF_ADB_BLOCK

----------------------------------------------------------------------------
(* Signature records of other versions and algorithms *)

\* C35: adb_trust_verify_signature returns not-supported for every record
\* whose sign_ver is not 0 and for every record whose hash_alg is not
\* SHA-512, whichever keys are trusted.
C35_UnknownRecordNotSupported ==
    (pc = "verified"
        /\ (hist[1].sign_ver # 0 \/ hist[1].hash_alg # APK_DIGEST_SHA512))
        => r \in {-ENOSYS, -ENOTSUP}

\* the part about the record version alone
UnknownVersionNotSupported ==
    (pc = "verified" /\ hist[1].sign_ver # 0) => r = -ENOSYS

----------------------------------------------------------------------------
(* Raw append and the buffer *)

\* C37: every byte adb_w_raw has written, the zero bytes of the alignment
\* padding included, lies below the capacity db->mmap.len of the buffer,
\* for dynamic databases and for static databases of any buffer size; a
\* static database whose buffer cannot hold the data stops with every
\* byte of the arena inside the caller's buffer.
C37_RawWritesBelowCapacity == db.adb.len <= db.mmap.len

----------------------------------------------------------------------------
(* Freeing a database *)

\* C39: adb_free releases only storage the database acquired itself: a
\* mapped database unmaps its region, a dynamic or stream-read database
\* frees its arena and bucket chains, and no call frees or unmaps a buffer
\* the caller provided (static and blob-parsed databases).
C39_FreeReleasesOwnStorage ==
    pc = "freed"
        => /\ \A c \in hist.released : c.of # "caller"
           /\ hist.made = "map" => hist.released = {[call |-> "munmap", of |-> "map"]}

\* the same for the databases whose storage is their own
OwnStorageReleased ==
    (pc = "freed" /\ hist.made \in {"dynamic", "stream", "map"})
        => \A c \in hist.released : c.of # "caller"

----------------------------------------------------------------------------
(* Package extraction *)

\* the files of directory p of the manifest, from file f on, that take a
\* DATA block: non-zero size and no link target
RECURSIVE OwedInDir(_, _, _)
OwedInDir(paths, p, f) ==
    IF f > Len(paths[p]) THEN <<>>
    ELSE (IF paths[p][f].size # 0 /\ ~paths[p][f].target
          THEN <<DataBlk(p, f, paths[p][f].size + SIZEOF_ADB_DATA_PACKAGE)>>
          ELSE <<>>) \o OwedInDir(paths, p, f + 1)

\* the DATA blocks the manifest asks for, in manifest order
RECURSIVE Owed(_, _)
Owed(paths, p) ==
    IF p > Len(paths) THEN <<>> ELSE OwedInDir(paths, p, 1) \o Owed(paths, p + 1)

====
